---- MODULE Spec2Model ----
(***************************************************************************)
(* Verification model of the task-management UI repository:                *)
(*   - server/routes/suggestions.ts   (/chat conversation history)         *)
(*   - server/services/suggestions.ts (analyzeEmails / analyzeCalendar)    *)
(*   - server/services/claude.ts      (extractTasksWithClaude)             *)
(*   - src/components/CalendarView.tsx (time grid, drag gestures)          *)
(*   - src/components/TaskListColumn.tsx (groupTasks)                      *)
(*   - server/services/gog.ts         (execGog / execGogWithAccount, the   *)
(*                                     reads over all accounts)            *)
(*   - server/routes/tasks.ts, calendar.ts (route handlers)                *)
(*   - src/hooks (useCalendar, useMultiListTasks, useSuggestions)          *)
(* Each component has its own specification over the shared variables;     *)
(* the variables of the other components stay at their initial value.      *)
(***************************************************************************)
EXTENDS Integers, Sequences, FiniteSets, TLC

VARIABLES
  \* ---- server/routes/suggestions.ts (/chat) ----
  conversations,  \* Map<string, ConversationMessage[]>: session -> reference (0 = no entry)
  arrays,         \* the message arrays the map's references point to
  requests,       \* per request slot, the /chat request it holds: awaiting, or
                  \* responded (the slot can take the next request)
  appended,       \* per session, every message ever pushed, in push order
  chatCount,      \* per session, number of /clear requests and of /chat requests that carried a message,
                  \* and how many of them arrived while another was awaiting
  \* ---- server/services/suggestions.ts ----
  analysis,       \* the running analyzeEmails / analyzeCalendar call
  \* ---- server/services/claude.ts ----
  extraction,     \* one extractTasksWithClaude call: input and result
  \* ---- src/components/CalendarView.tsx ----
  timeProbe,      \* one getTimeFromY call: offset (in half pixels) and result
  isDragging,     \* useState(false)
  dragSelection,  \* useState<DragSelection | null>(null)
  eventDrag,      \* useState<{eventId, mode, original*, current*, updating?} | null>(null)
  gridCalls,      \* the view mode prop, the press and cursor points of the
                  \* selection gesture, the call of onDragSelect / onEventUpdate
                  \* made by the last handler (NULL when it made none), the
                  \* onEventUpdate calls of the current event gesture and the
                  \* number of their promises still unsettled
  \* ---- src/components/TaskListColumn.tsx ----
  grouping,       \* one groupTasks call: clock, tasks and result
  \* ---- server/services/gog.ts ----
  gogCall,        \* one execGogWithAccount call: child process and promise
  \* ---- server/routes/tasks.ts, server/routes/calendar.ts ----
  routeCall,      \* one request to a tasks / calendar route, the module's cached
                  \* defaultTaskListId and the number of requests served
  \* ---- server/routes/suggestions.ts (/chat, one handler in detail) ----
  chatRun,        \* one /chat handler: prompt, extraction, task-service calls,
                  \* executedTasks, response and the session's history
  \* ---- server/services/gog.ts (reads over all accounts) ----
  fanOut,         \* one getCalendarEventsAllAccounts / searchEmailsAllAccounts call
  \* ---- src/hooks (useCalendar, useMultiListTasks) ----
  hookFetch,      \* the hook's state and its fetches in flight
  \* ---- src/hooks/useSuggestions.ts ----
  suggestHook,    \* localStorage, the hook's three lists and its analyze calls
  \* ---- server/services/suggestions.ts (analyzeCalendar's due dates) ----
  calendarRun,    \* one analyzeCalendar call: today and the suggestions pushed
  \* ---- src/hooks/useSuggestions.ts (useMultiListTasks) ----
  multiList       \* the hook's four states, its API calls in flight and what
                  \* the last handler gave its caller

vars == <<conversations, arrays, requests, appended, chatCount, analysis,
          extraction, timeProbe, isDragging, dragSelection, eventDrag,
          gridCalls, grouping, gogCall, routeCall, chatRun, fanOut,
          hookFetch, suggestHook, calendarRun, multiList>>

chatVars == <<conversations, arrays, requests, appended, chatCount>>
gridVars == <<isDragging, dragSelection, eventDrag, gridCalls>>
restVars == <<routeCall, chatRun, fanOut, hookFetch, suggestHook, calendarRun,
              multiList>>

NULL == [null |-> TRUE]

Min(a, b) == IF a <= b THEN a ELSE b
Max(a, b) == IF a >= b THEN a ELSE b

\* Array.prototype.slice(-n): the last n elements (all of them when shorter)
LastN(s, n) == IF Len(s) <= n THEN s ELSE SubSeq(s, Len(s) - n + 1, Len(s))

\* Array.prototype.slice(0, n): the first n elements
FirstN(s, n) == IF Len(s) <= n THEN s ELSE SubSeq(s, 1, n)

(***************************************************************************)
(* Initial values of each component                                        *)
(***************************************************************************)
Sessions == {"default", "s2"}

MaxInFlight == 2    \* /chat requests awaiting at the same time

FreeSlot ==
  [pc |-> "free", status |-> 0, session |-> "default", history |-> 0,
   hasMessage |-> TRUE]

ChatIdle ==
  /\ conversations = [s \in Sessions |-> 0]
  /\ arrays = << >>
  /\ requests = [i \in 1..MaxInFlight |-> FreeSlot]
  /\ appended = [s \in Sessions |-> << >>]
  /\ chatCount = [s \in Sessions |-> [received |-> 0, overlapped |-> 0, cleared |-> 0]]

AnalysisIdle ==
  analysis = [pc |-> "idle", source |-> "none", items |-> << >>, idx |-> 0,
              aiCalls |-> << >>, suggestions |-> << >>]
ExtractionIdle ==
  extraction = [pc |-> "idle", userMessage |-> << >>, output |-> NULL,
                response |-> "none", tasks |-> << >>]
TimeIdle == timeProbe = [pc |-> "idle", y2 |-> 0, hour |-> 0, minute |-> 0]
GridIdle ==
  /\ isDragging = FALSE
  /\ dragSelection = NULL
  /\ eventDrag = NULL
  /\ gridCalls = [mode |-> "day", press |-> -1, cursor |-> -1, select |-> NULL,
                  updateCount |-> 0, updatePending |-> 0, update |-> NULL]
GroupingIdle == grouping = [pc |-> "idle", now |-> <<1970, 1, 1>>, tasks |-> << >>, groups |-> << >>]
GogIdle ==
  gogCall = [pc |-> "idle", args |-> << >>, account |-> "", primary |-> "",
             allArgs |-> << >>, promise |-> "none", result |-> NULL,
             first |-> NULL]
RoutesIdle ==
  routeCall = [pc |-> "idle", route |-> "none", listId |-> "", valid |-> TRUE,
               lookedUp |-> FALSE,
               defaultTaskListId |-> "", served |-> 0, cliFailure |-> "none",
               response |-> [status |-> 0, kind |-> "none", message |-> ""]]
ChatRunIdle ==
  chatRun = [pc |-> "idle", message |-> << >>, today |-> "", history |-> << >>,
             twinHistory |-> << >>, prompt |-> NULL, twinPrompt |-> NULL,
             output |-> NULL, result |-> NULL, idx |-> 0, calls |-> << >>,
             executedTasks |-> << >>, status |-> 0, response |-> ""]
FanOutIdle ==
  fanOut = [pc |-> "idle", kind |-> "none", accounts |-> 0, results |-> << >>,
            combined |-> NULL]
HooksIdle ==
  hookFetch = [hook |-> "none", value |-> << >>, started |-> 0,
               fetches |-> << >>, resolvedOrder |-> << >>]
SuggestIdle ==
  suggestHook = [storage |-> [present |-> FALSE, ids |-> << >>], suggestions |-> << >>,
                 gmailSuggestions |-> << >>, calendarSuggestions |-> << >>,
                 pending |-> << >>, analyses |-> 0, mounts |-> 0,
                 dismissed |-> {}, stored |-> NULL]
CalendarRunIdle ==
  calendarRun = [pc |-> "idle", today |-> <<1970, 1, 1>>, eventDates |-> {},
                 suggestions |-> << >>]
MultiListIdle ==
  multiList = [taskLists |-> << >>, tasksByList |-> << >>, listVisibility |-> << >>,
               listCollapsed |-> << >>, pending |-> << >>, started |-> 0,
               created |-> 0, crashed |-> FALSE, last |-> NULL]
RestIdle ==
  /\ RoutesIdle /\ ChatRunIdle /\ FanOutIdle /\ HooksIdle /\ SuggestIdle
  /\ CalendarRunIdle /\ MultiListIdle

(***************************************************************************)
(* server/routes/suggestions.ts : POST /chat                               *)
(***************************************************************************)
MaxChats == 12      \* /chat requests with a message for session "default"
MaxOtherChats == 2  \* /chat requests with a message for any other session
MaxOverlaps == 2    \* per session, requests received while another one is awaiting
MaxHistory == 20    \* "Keep only last 20 messages"

ChatLimit(s) == IF s = "default" THEN MaxChats ELSE MaxOtherChats

\* The texts are free inputs (the client's message, the AI tool's reply); the
\* k-th message pushed for a session carries the text k, so that every message
\* of a session is distinguishable from the others.
UserMessage(k) == [role |-> "user", content |-> k]
AssistantMessage(k) == [role |-> "assistant", content |-> k]

\* the trim cutting at the wrong end: the 20 oldest messages are kept
TrimHistory_KeepOldest(h) == IF Len(h) > MaxHistory THEN FirstN(h, MaxHistory) ELSE h

\* history.splice(0, history.length - 20) guarded by history.length > 20
TrimHistory(h) == IF Len(h) > MaxHistory THEN LastN(h, MaxHistory) ELSE h

\* lines 54-68 and the synchronous part of the try block up to the first
\* await (getTaskLists): validation, get-or-create, push of the user message
ChatReceive(i, sessionId, hasMessage) ==
  /\ requests[i].pc # "awaiting"
  /\ \A j \in 1..(i - 1) : requests[j].pc = "awaiting"
  /\ IF ~hasMessage
       THEN \* res.status(400); return
            /\ requests' = [requests EXCEPT ![i] =
                 [pc |-> "responded", status |-> 400, session |-> sessionId,
                  history |-> 0, hasMessage |-> FALSE]]
            /\ UNCHANGED <<conversations, arrays, appended, chatCount>>
       ELSE LET created == conversations[sessionId] = 0
                ref == IF created THEN Len(arrays) + 1 ELSE conversations[sessionId]
                base == IF created THEN Append(arrays, << >>) ELSE arrays
                msg == UserMessage(Len(appended[sessionId]) + 1)
                overlap == \E j \in 1..MaxInFlight : requests[j].pc = "awaiting"
            IN /\ chatCount[sessionId].received < ChatLimit(sessionId)
               /\ overlap => chatCount[sessionId].overlapped < MaxOverlaps
               /\ chatCount' = [chatCount EXCEPT ![sessionId] =
                    [@ EXCEPT !.received = @ + 1,
                              !.overlapped = @ + (IF overlap THEN 1 ELSE 0)]]
               /\ conversations' = [conversations EXCEPT ![sessionId] = ref]
               /\ arrays' = [base EXCEPT ![ref] = Append(@, msg)]
               /\ appended' = [appended EXCEPT ![sessionId] = Append(@, msg)]
               /\ requests' = [requests EXCEPT ![i] =
                    [pc |-> "awaiting", status |-> 0, session |-> sessionId,
                     history |-> ref, hasMessage |-> TRUE]]
  /\ UNCHANGED <<analysis, extraction, timeProbe, gridVars, grouping, gogCall,
               restVars>>

\* lines 106-157: the awaited work has returned; the assistant message is
\* pushed on the array this request holds, the array is trimmed, res.json
ChatRespond(i) ==
  /\ requests[i].pc = "awaiting"
  /\ LET r == requests[i]
         msg == AssistantMessage(Len(appended[r.session]) + 1)
     IN /\ arrays' = [arrays EXCEPT ![r.history] = TrimHistory(Append(@, msg))]
        /\ appended' = [appended EXCEPT ![r.session] = Append(@, msg)]
        /\ requests' = [requests EXCEPT ![i] = [@ EXCEPT !.pc = "responded", !.status = 200]]
  /\ UNCHANGED <<conversations, chatCount>>
  /\ UNCHANGED <<analysis, extraction, timeProbe, gridVars, grouping, gogCall,
               restVars>>

InitChat ==
  /\ ChatIdle /\ AnalysisIdle /\ ExtractionIdle /\ TimeIdle /\ GridIdle
  /\ GroupingIdle /\ GogIdle
  /\ RestIdle

NextChat ==
  \/ \E i \in 1..MaxInFlight, s \in Sessions, m \in BOOLEAN : ChatReceive(i, s, m)
  \/ \E i \in 1..MaxInFlight : ChatRespond(i)

SpecChat == InitChat /\ [][NextChat]_vars

\* the array stored for a session (empty when the map has no entry)
StoredHistory(s) == IF conversations[s] = 0 THEN << >> ELSE arrays[conversations[s]]

HistoryCapped(s) ==
  /\ Len(StoredHistory(s)) <= MaxHistory
  /\ StoredHistory(s) = LastN(appended[s], MaxHistory)

\* C1: once a /chat request has finished responding (the step in which it
\* sends its reply), the session's stored history holds at most 20 messages
\* and they are the most recently appended messages of that session, in their
\* original order.
C1_HistoryCapped ==
  [][\A i \in 1..MaxInFlight :
       (requests[i].pc = "awaiting" /\ requests'[i].pc = "responded")
         => HistoryCapped(requests[i].session)']_vars

\* C1 witness: a request has responded after more than 20 messages were
\* appended to its session, so the trim has cut the history
C1_Witness ==
  \E i \in 1..MaxInFlight :
    /\ requests[i].pc = "responded" /\ requests[i].status = 200
    /\ Len(appended[requests[i].session]) > MaxHistory
    /\ Len(StoredHistory(requests[i].session)) = MaxHistory

(***************************************************************************)
(* server/routes/suggestions.ts : POST /clear next to POST /chat           *)
(***************************************************************************)
MaxSessionChats == 3   \* per session, /chat requests with a message
MaxClears == 2         \* per session, /clear requests

\* the map and the arrays after the session's array was emptied in place
AfterClear_EmptiedInPlace(sessionId) ==
  [conversations |-> conversations,
   arrays |-> IF conversations[sessionId] = 0 THEN arrays
              ELSE [arrays EXCEPT ![conversations[sessionId]] = << >>]]

\* conversations.delete(sessionId), line 171: the entry is removed; the
\* array stays with the handlers that hold it
AfterClear(sessionId) ==
  [conversations |-> [conversations EXCEPT ![sessionId] = 0], arrays |-> arrays]

\* router.post('/clear'), lines 169-173
Clear(sessionId) ==
  /\ chatCount[sessionId].cleared < MaxClears
  /\ conversations' = AfterClear(sessionId).conversations
  /\ arrays' = AfterClear(sessionId).arrays
  /\ chatCount' = [chatCount EXCEPT ![sessionId].cleared = @ + 1]
  /\ UNCHANGED <<requests, appended>>
  /\ UNCHANGED <<analysis, extraction, timeProbe, gridVars, grouping, gogCall,
               restVars>>

NextSession ==
  \/ \E i \in 1..MaxInFlight, s \in Sessions, m \in BOOLEAN :
       /\ chatCount[s].received < MaxSessionChats
       /\ ChatReceive(i, s, m)
  \/ \E i \in 1..MaxInFlight : ChatRespond(i)
  \/ \E s \in Sessions : Clear(s)

SpecSession == InitChat /\ [][NextSession]_vars

\* C23: a /clear request leaves the session without stored history; from
\* then on the stored history stays empty, also when a /chat request that
\* was in flight responds, until a /chat request for the session arrives,
\* whose history then holds its own user message and nothing else.
C23_ClearedStaysCleared ==
  [][\A s \in Sessions :
       /\ chatCount'[s].cleared > chatCount[s].cleared => StoredHistory(s)' = << >>
       /\ (StoredHistory(s) = << >> /\ StoredHistory(s)' # << >>) =>
            /\ chatCount'[s].received = chatCount[s].received + 1
            /\ StoredHistory(s)' = <<UserMessage(Len(appended'[s]))>>]_vars

\* C23 witness: a request was awaiting when its session was cleared, the next
\* request for the session arrived, the first one responded after that, and
\* the stored history is the user message of the second one alone
C23_Witness ==
  \E i \in 1..MaxInFlight :
    LET s == requests[i].session
    IN /\ requests[i].pc = "responded" /\ requests[i].status = 200
       /\ chatCount[s].cleared > 0
       /\ conversations[s] # 0
       /\ requests[i].history # conversations[s]
       /\ Len(StoredHistory(s)) = 1
       /\ StoredHistory(s)[1].role = "user"
       /\ arrays[requests[i].history][Len(arrays[requests[i].history])].content
            > StoredHistory(s)[1].content

(***************************************************************************)
(* server/services/suggestions.ts : analyzeEmails / analyzeCalendar        *)
(***************************************************************************)
MaxItems == 7        \* threads / events the Google-data CLI may return
MaxSuggestions == 2  \* suggestions in one reply of the AI tool
MaxAnalysed == 5     \* emails.slice(0, 5), events.slice(0, 5)

\* What one run of the AI tool can produce for a prompt: the process fails or
\* times out, the text holds no {...}, the {...} is not JSON, the JSON object
\* has no suggestions array, or it has one with k entries.
AiOutcomes ==
  {[kind |-> k, count |-> 0] : k \in {"error", "nomatch", "malformed", "noarray"}}
    \cup {[kind |-> "ok", count |-> c] : c \in 0..MaxSuggestions}

\* analyzeWithClaude (lines 33-70): the parsed object, or {suggestions: []}
\* when execSync or JSON.parse throws or nothing matches. An object without a
\* suggestions array is returned as it is.
analyzeWithClaude(ai) ==
  CASE ai.kind = "ok"      -> [hasArray |-> TRUE, suggestions |-> [j \in 1..ai.count |-> [title |-> j]]]
    [] ai.kind = "noarray" -> [hasArray |-> FALSE, suggestions |-> << >>]
    [] OTHER               -> [hasArray |-> TRUE, suggestions |-> << >>]

\* the loop without the slice: every item is analysed
AnalysedItems_NoSlice(items) == items

\* the items one call analyses: emails.slice(0, 5) / events.slice(0, 5)
AnalysedItems(items) == FirstN(items, MaxAnalysed)

\* The Google-data read a call starts with: a failure, or n items (ids 1..n
\* in the order the service returns them).
SearchResults ==
  {[success |-> FALSE, data |-> << >>]}
    \cup {[success |-> TRUE, data |-> [j \in 1..n |-> j]] : n \in 0..MaxItems}

\* the state of a call after its read: returned at once on a failure or on an
\* empty list, otherwise at the first item of the loop
StartedAnalysis(src, result) ==
  [pc |-> IF ~result.success \/ Len(result.data) = 0 THEN "returned" ELSE "running",
   source |-> src, items |-> result.data,
   idx |-> IF ~result.success \/ Len(result.data) = 0 THEN 0 ELSE 1,
   aiCalls |-> << >>, suggestions |-> << >>]

\* analyzeEmails, lines 72-81: searchEmailsAllAccounts, then the early return
analyzeEmails(result) ==
  /\ analysis.pc \in {"idle", "returned", "threw"}
  /\ analysis' = StartedAnalysis("gmail", result)
  /\ UNCHANGED <<chatVars, extraction, timeProbe, gridVars, grouping, gogCall,
               restVars>>

\* analyzeCalendar, lines 125-140: getCalendarEventsAllAccounts, then the
\* early return
analyzeCalendar(result) ==
  /\ analysis.pc \in {"idle", "returned", "threw"}
  /\ analysis' = StartedAnalysis("calendar", result)
  /\ UNCHANGED <<chatVars, extraction, timeProbe, gridVars, grouping, gogCall,
               restVars>>

\* one iteration of the for loop (lines 84-120 / 142-182): one invocation of
\* the AI tool for the item, then one push per returned suggestion; after the
\* last analysed item the function returns. Iterating an object that has no
\* suggestions array throws out of the function.
AnalyzeItem(ai) ==
  /\ analysis.pc = "running"
  /\ LET item == AnalysedItems(analysis.items)[analysis.idx]
         result == analyzeWithClaude(ai)
         pushed == [j \in 1..Len(result.suggestions) |->
                      [source |-> analysis.source, sourceId |-> item,
                       title |-> result.suggestions[j].title]]
         last == analysis.idx = Len(AnalysedItems(analysis.items))
     IN analysis' =
          IF ~result.hasArray
            THEN [analysis EXCEPT !.pc = "threw",
                                  !.aiCalls = Append(@, item)]
            ELSE [analysis EXCEPT !.pc = IF last THEN "returned" ELSE "running",
                                  !.idx = @ + 1,
                                  !.aiCalls = Append(@, item),
                                  !.suggestions = @ \o pushed]
  /\ UNCHANGED <<chatVars, extraction, timeProbe, gridVars, grouping, gogCall,
               restVars>>

InitAnalyze ==
  /\ ChatIdle /\ AnalysisIdle /\ ExtractionIdle /\ TimeIdle /\ GridIdle
  /\ GroupingIdle /\ GogIdle
  /\ RestIdle

NextAnalyze ==
  \/ \E r \in SearchResults : analyzeEmails(r)
  \/ \E r \in SearchResults : analyzeCalendar(r)
  \/ \E ai \in AiOutcomes : AnalyzeItem(ai)

SpecAnalyze == InitAnalyze /\ [][NextAnalyze]_vars

\* C2: one analyzeEmails / analyzeCalendar call invokes the AI tool only for
\* the first 5 items of the read's result, once per item and in order; a call
\* that returned has invoked it for exactly those items.
C2_AtMostFiveAnalysed ==
  /\ Len(analysis.aiCalls) <= 5
  /\ Len(analysis.aiCalls) <= Len(analysis.items)
  /\ analysis.aiCalls = SubSeq(analysis.items, 1, Len(analysis.aiCalls))
  /\ analysis.pc = "returned" =>
       Len(analysis.aiCalls) = Min(5, Len(analysis.items))

\* C2 witness: a call that was given more than 5 items has returned after
\* analysing 5 of them
C2_Witness ==
  /\ analysis.pc = "returned"
  /\ Len(analysis.items) > 5
  /\ analysis.aiCalls = <<1, 2, 3, 4, 5>>

\* C3: analyzeCalendar collects at most one suggestion per calendar event,
\* whatever the AI tool returns for the event.
C3_OneSuggestionPerEvent ==
  analysis.source = "calendar" =>
    \A e \in 1..MaxItems :
      Cardinality({j \in 1..Len(analysis.suggestions) :
                     analysis.suggestions[j].sourceId = e}) <= 1

\* router.post('/analyze') (routes/suggestions.ts lines 7-34) around a call
\* for one source: the awaited call returned, or it threw and the catch
\* answers 500
AnalyzeRouteResponse ==
  IF analysis.pc = "threw"
    THEN [status |-> 500, success |-> FALSE, suggestions |-> << >>]
    ELSE [status |-> 200, success |-> TRUE, suggestions |-> analysis.suggestions]

\* C12: whatever the AI tool does on one email or event (failure, timeout, no
\* JSON object, malformed JSON, an object without a suggestions array), the
\* call of analyzeEmails / analyzeCalendar does not throw, and once it has
\* ended the analyze endpoint answers with success.
C12_DegradesToEmptyList ==
  /\ analysis.pc # "threw"
  /\ analysis.pc = "returned" => AnalyzeRouteResponse.success

(***************************************************************************)
(* server/services/claude.ts : extractTasksWithClaude                      *)
(***************************************************************************)
MaxWords == 2     \* words a user message is put together from
MaxAiTasks == 2   \* entries of the tasks array in the AI tool's output

\* A string is a sequence of characters; a Japanese character is written by
\* its reading ("kan" "ryo" is U+5B8C U+4E86, "owa" "wa" "xtu" "ta" is U+7D42
\* U+308F U+3063 U+305F, "xtu" being the small tsu). The user messages are the
\* concatenations of up to MaxWords of these words: the keywords of
\* inferActionFromMessage, in mixed case where they have one, and pieces that
\* form a keyword only across a word boundary.
Words ==
  { <<"kan", "ryo">>, <<"owa", "wa", "xtu", "ta">>, <<"de", "ki", "ta">>,
    <<"D", "o", "N", "E">>, <<"d", "O">>, <<"N", "e">>,
    <<"saku", "jo">>, <<"mi">>, <<"ya", "xtu", "pa", "ri", "ma", "da">>,
    <<"x">> }

RECURSIVE Concat(_)
Concat(ws) == IF ws = << >> THEN << >> ELSE Head(ws) \o Concat(Tail(ws))

UserMessages ==
  {Concat(ws) : ws \in UNION {[1..n -> Words] : n \in 1..MaxWords}}

\* String.prototype.toLowerCase on the letters of the alphabet above
toLowerCase(str) ==
  [i \in 1..Len(str) |->
     CASE str[i] = "D" -> "d"
       [] str[i] = "O" -> "o"
       [] str[i] = "N" -> "n"
       [] str[i] = "E" -> "e"
       [] OTHER -> str[i]]

\* String.prototype.includes
includes(str, sub) ==
  \E i \in 0..(Len(str) - Len(sub)) : SubSeq(str, i + 1, i + Len(sub)) = sub

TaskActions == {"add", "update", "delete", "complete", "uncomplete"}

\* the action field of a task in the AI tool's JSON: one of the five, some
\* other string, or absent
AiActions == TaskActions \cup {"other", "missing"}

\* inferActionFromMessage without toLowerCase: the keywords are compared
\* with the message as typed
inferActionFromMessage_CaseSensitive(msg, claudeAction) ==
  IF \/ includes(msg, <<"kan", "ryo">>)
     \/ includes(msg, <<"owa", "wa", "xtu", "ta">>)
     \/ includes(msg, <<"de", "ki", "ta">>)
     \/ includes(msg, <<"d", "o", "n", "e">>)
    THEN "complete"
  ELSE IF \/ includes(msg, <<"saku", "jo">>)
          \/ includes(msg, <<"ke", "shi", "te">>)
          \/ includes(msg, <<"i", "ra", "na", "i">>)
          \/ includes(msg, <<"ya", "me", "ru">>)
    THEN "delete"
  ELSE IF \/ includes(msg, <<"mi", "kan", "ryo">>)
          \/ includes(msg, <<"ya", "xtu", "pa", "ri", "ma", "da">>)
    THEN "uncomplete"
  ELSE IF claudeAction \in TaskActions THEN claudeAction ELSE "add"

\* inferActionFromMessage, lines 129-143
inferActionFromMessage(msg, claudeAction) ==
  LET lowerMsg == toLowerCase(msg)
  IN IF \/ includes(lowerMsg, <<"kan", "ryo">>)
        \/ includes(lowerMsg, <<"owa", "wa", "xtu", "ta">>)
        \/ includes(lowerMsg, <<"de", "ki", "ta">>)
        \/ includes(lowerMsg, <<"d", "o", "n", "e">>)
       THEN "complete"
     ELSE IF \/ includes(lowerMsg, <<"saku", "jo">>)
             \/ includes(lowerMsg, <<"ke", "shi", "te">>)
             \/ includes(lowerMsg, <<"i", "ra", "na", "i">>)
             \/ includes(lowerMsg, <<"ya", "me", "ru">>)
       THEN "delete"
     ELSE IF \/ includes(lowerMsg, <<"mi", "kan", "ryo">>)
             \/ includes(lowerMsg, <<"ya", "xtu", "pa", "ri", "ma", "da">>)
       THEN "uncomplete"
     ELSE IF claudeAction \in TaskActions THEN claudeAction ELSE "add"

\* the tasks in the user's lists as getTasks returns them: t1 is open, t9 is
\* completed
FetchedTasks ==
  [t1 |-> [listId |-> "list1", status |-> "needsAction"],
   t9 |-> [listId |-> "list1", status |-> "completed"]]

\* the incomplete tasks handed to the extraction (id -> list id): the
\* fetched tasks with status needsAction (routes/suggestions.ts lines 85-93)
ExistingTasks ==
  [t \in {u \in DOMAIN FetchedTasks : FetchedTasks[u].status = "needsAction"}
     |-> FetchedTasks[t].listId]

\* findListId, lines 123-126 ("" stands for undefined)
findListId(taskId) ==
  IF taskId \in DOMAIN ExistingTasks THEN ExistingTasks[taskId] ELSE ""

\* one entry of the tasks array printed by the AI tool: any action bound to
\* the listed task t1, a new task, or an action on a task t9 that is not among
\* the listed ones
AiTasks ==
  {[action |-> a, existingTaskId |-> "t1"] : a \in AiActions}
    \cup {[action |-> a, existingTaskId |-> ""] : a \in {"add", "missing"}}
    \cup {[action |-> a, existingTaskId |-> "t9"] : a \in {"complete", "uncomplete"}}

\* What one run of the AI tool can print:
\*   error     execSync throws (non-zero exit, timeout)
\*   object    a {...} that parses; tasks is an array ("array"), absent
\*             ("missing") or a truthy non-array ("notarray")
\*   malformed a {...} that JSON.parse rejects
\*   array     no {...} but a [...] that parses, with n entries that are not
\*             objects (any object would have matched the {...} pattern)
\*   none      neither pattern matches
ExtractOutputs ==
  {[kind |-> k, tasksKind |-> "missing", tasks |-> << >>, hasResponse |-> FALSE, count |-> 0]
     : k \in {"error", "malformed", "none"}}
  \cup {[kind |-> "object", tasksKind |-> "array", tasks |-> ts, hasResponse |-> r, count |-> 0]
     : ts \in UNION {[1..n -> AiTasks] : n \in 0..MaxAiTasks}, r \in BOOLEAN}
  \cup {[kind |-> "object", tasksKind |-> tk, tasks |-> << >>, hasResponse |-> r, count |-> 0]
     : tk \in {"missing", "notarray"}, r \in BOOLEAN}
  \cup {[kind |-> "array", tasksKind |-> "array", tasks |-> << >>, hasResponse |-> FALSE, count |-> n]
     : n \in 0..MaxAiTasks}

\* formatTaskResponse, lines 200-235: a fixed offer of help for no tasks,
\* otherwise the list of the tasks by action
formatTaskResponse(tasks) ==
  IF Len(tasks) = 0 THEN "help-offer" ELSE "task-summary"

\* the mapping with the AI tool's action copied as it is
MapObjectTasks_RawAction(msg, ts) ==
  [j \in 1..Len(ts) |->
     [action |-> ts[j].action,
      existingTaskId |-> ts[j].existingTaskId,
      existingListId |-> IF ts[j].existingTaskId # ""
                           THEN findListId(ts[j].existingTaskId) ELSE ""]]

\* lines 152-160: one ExtractedTask per entry of parsed.tasks
MapObjectTasks(msg, ts) ==
  [j \in 1..Len(ts) |->
     [action |-> inferActionFromMessage(msg, ts[j].action),
      existingTaskId |-> ts[j].existingTaskId,
      existingListId |-> IF ts[j].existingTaskId # ""
                           THEN findListId(ts[j].existingTaskId) ELSE ""]]

\* lines 172-179: one ExtractedTask per entry of the bare array; an entry
\* that is not an object has no action and no existingTaskId
MapArrayTasks(msg, n) ==
  [j \in 1..n |->
     [action |-> inferActionFromMessage(msg, "missing"),
      existingTaskId |-> "", existingListId |-> ""]]

\* the value extractTasksWithClaude resolves to, lines 108-197
ExtractResult(msg, out) ==
  CASE out.kind = "object" /\ out.tasksKind # "notarray" ->
         LET tasks == MapObjectTasks(msg, out.tasks)
         IN [response |-> IF out.hasResponse THEN "ai-response"
                          ELSE formatTaskResponse(tasks),
             tasks |-> tasks]
    [] out.kind = "array" ->
         LET tasks == MapArrayTasks(msg, out.count)
         IN [response |-> formatTaskResponse(tasks), tasks |-> tasks]
    [] out.kind = "none" ->
         [response |-> "could-not-extract", tasks |-> << >>]
    [] OTHER ->
         \* catch (err): the execSync error, the JSON.parse error or the
         \* TypeError of calling map on a non-array
         [response |-> "ai-error-apology", tasks |-> << >>]

extractTasksWithClaude(out) ==
  /\ extraction.pc = "called"
  /\ LET result == ExtractResult(extraction.userMessage, out)
     IN extraction' = [extraction EXCEPT !.pc = "returned", !.output = out,
                                         !.response = result.response,
                                         !.tasks = result.tasks]
  /\ UNCHANGED <<chatVars, analysis, timeProbe, gridVars, grouping, gogCall,
               restVars>>

InitExtract ==
  /\ \E msg \in UserMessages :
       extraction = [pc |-> "called", userMessage |-> msg, output |-> NULL,
                     response |-> "none", tasks |-> << >>]
  /\ ChatIdle /\ AnalysisIdle /\ TimeIdle /\ GridIdle /\ GroupingIdle /\ GogIdle
  /\ RestIdle

NextExtract == \E out \in ExtractOutputs : extractTasksWithClaude(out)

SpecExtract == InitExtract /\ [][NextExtract]_vars

\* the message holds the letters d, o, n, e in a row, each in either case
HasDone(msg) ==
  \E i \in 1..(Len(msg) - 3) :
    /\ msg[i] \in {"d", "D"}
    /\ msg[i + 1] \in {"o", "O"}
    /\ msg[i + 2] \in {"n", "N"}
    /\ msg[i + 3] \in {"e", "E"}

HasCompleteKeyword(msg) ==
  \/ \E i \in 1..(Len(msg) - 1) : msg[i] = "kan" /\ msg[i + 1] = "ryo"
  \/ \E i \in 1..(Len(msg) - 3) :
       msg[i] = "owa" /\ msg[i + 1] = "wa" /\ msg[i + 2] = "xtu" /\ msg[i + 3] = "ta"
  \/ \E i \in 1..(Len(msg) - 2) :
       msg[i] = "de" /\ msg[i + 1] = "ki" /\ msg[i + 2] = "ta"
  \/ HasDone(msg)

\* C4: when the user message contains kanryo, owatta, dekita or "done" in any
\* letter case, every extracted task has action complete, whatever action the
\* AI tool returned for it.
C4_CompleteKeywordForcesComplete ==
  (extraction.pc = "returned" /\ HasCompleteKeyword(extraction.userMessage)) =>
    \A j \in 1..Len(extraction.tasks) : extraction.tasks[j].action = "complete"

\* C4 witness: the message says "done" in mixed case, the AI tool returned a
\* task with another action, and the extracted task is a complete
C4_Witness ==
  /\ extraction.pc = "returned"
  /\ HasDone(extraction.userMessage)
  /\ ~includes(extraction.userMessage, <<"d", "o", "n", "e">>)
  /\ extraction.output.kind = "object"
  /\ Len(extraction.tasks) > 0
  /\ extraction.output.tasks[1].action = "delete"
  /\ extraction.tasks[1].action = "complete"

HasUncompleteKeyword(msg) ==
  \/ \E i \in 1..(Len(msg) - 2) :
       msg[i] = "mi" /\ msg[i + 1] = "kan" /\ msg[i + 2] = "ryo"
  \/ \E i \in 1..(Len(msg) - 5) :
       /\ msg[i] = "ya" /\ msg[i + 1] = "xtu" /\ msg[i + 2] = "pa"
       /\ msg[i + 3] = "ri" /\ msg[i + 4] = "ma" /\ msg[i + 5] = "da"

HasDeleteKeyword(msg) ==
  \/ \E i \in 1..(Len(msg) - 1) : msg[i] = "saku" /\ msg[i + 1] = "jo"
  \/ \E i \in 1..(Len(msg) - 2) :
       msg[i] = "ke" /\ msg[i + 1] = "shi" /\ msg[i + 2] = "te"
  \/ \E i \in 1..(Len(msg) - 3) :
       msg[i] = "i" /\ msg[i + 1] = "ra" /\ msg[i + 2] = "na" /\ msg[i + 3] = "i"
  \/ \E i \in 1..(Len(msg) - 2) :
       msg[i] = "ya" /\ msg[i + 1] = "me" /\ msg[i + 2] = "ru"

\* C18: when the user message contains mikanryo or yapparimada, every
\* extracted task has action uncomplete.
C18_UncompleteKeywordForcesUncomplete ==
  (extraction.pc = "returned" /\ HasUncompleteKeyword(extraction.userMessage)) =>
    \A j \in 1..Len(extraction.tasks) : extraction.tasks[j].action = "uncomplete"

\* the action the AI tool gave for the j-th extracted task (an entry of a
\* bare array has none)
AiActionOf(j) ==
  IF extraction.output.kind = "object" THEN extraction.output.tasks[j].action
  ELSE "missing"

\* C19: every extracted task has one of the five actions; when the message
\* holds no complete, delete or uncomplete keyword, the action is the AI
\* tool's action if that is one of the five and add otherwise.
C19_ActionIsOneOfFive ==
  extraction.pc = "returned" =>
    \A j \in 1..Len(extraction.tasks) :
      /\ extraction.tasks[j].action \in {"add", "update", "delete", "complete", "uncomplete"}
      /\ (/\ ~HasCompleteKeyword(extraction.userMessage)
          /\ ~HasDeleteKeyword(extraction.userMessage)
          /\ ~HasUncompleteKeyword(extraction.userMessage)) =>
           extraction.tasks[j].action =
             (IF AiActionOf(j) \in {"add", "update", "delete", "complete", "uncomplete"}
                THEN AiActionOf(j) ELSE "add")

\* C19 witness: no keyword in the message; the AI tool gave an action outside
\* the five for the first task and update for the second, and the extracted
\* tasks are an add and an update
C19_Witness ==
  /\ extraction.pc = "returned"
  /\ extraction.userMessage = <<"x">>
  /\ extraction.output.kind = "object"
  /\ Len(extraction.tasks) = 2
  /\ extraction.output.tasks[1].action = "other"
  /\ extraction.tasks[1].action = "add"
  /\ extraction.output.tasks[2].action = "update"
  /\ extraction.tasks[2].action = "update"

(***************************************************************************)
(* src/components/CalendarView.tsx : getTimeFromY                          *)
(***************************************************************************)
HOUR_HEIGHT == 60   \* pixels per hour
MaxAbove == 40      \* half pixels above the top edge of the grid
MaxBelow == 80      \* half pixels below the bottom edge of the grid

\* Offsets y = clientY - rect.top are counted in half pixels (y2 = 2y), so
\* that the offsets lying exactly between two quarter hours exist.
GridBottom2 == 2 * 24 * HOUR_HEIGHT

\* Math.round(x / 15) * 15 replaced by Math.floor
SnappedMinutes_Floor(y2) ==
  LET totalMinutes2 == Max(0, Min(2 * (24 * 60 - 1), (y2 * 60) \div HOUR_HEIGHT))
  IN (totalMinutes2 \div 30) * 15

\* lines 161-164: totalMinutes = max(0, min(24*60 - 1, (y / HOUR_HEIGHT) * 60))
\* and snappedMinutes = Math.round(totalMinutes / 15) * 15; Math.round is
\* floor(x + 1/2). In half minutes: floor((t2 + 15) / 30) * 15.
SnappedMinutes(y2) ==
  LET totalMinutes2 == Max(0, Min(2 * (24 * 60 - 1), (y2 * 60) \div HOUR_HEIGHT))
  IN ((totalMinutes2 + 15) \div 30) * 15

\* lines 157-169; gridRef.current is set whenever a handler of the grid runs
getTimeFromY(y2) ==
  [hour |-> SnappedMinutes(y2) \div 60, minute |-> SnappedMinutes(y2) % 60]

GetTime ==
  /\ timeProbe.pc = "called"
  /\ timeProbe' = [pc |-> "returned", y2 |-> timeProbe.y2,
                   hour |-> getTimeFromY(timeProbe.y2).hour,
                   minute |-> getTimeFromY(timeProbe.y2).minute]
  /\ UNCHANGED <<chatVars, analysis, extraction, gridVars, grouping, gogCall,
               restVars>>

InitTime ==
  /\ \E y2 \in (0 - MaxAbove)..(GridBottom2 + MaxBelow) :
       timeProbe = [pc |-> "called", y2 |-> y2, hour |-> 0, minute |-> 0]
  /\ ChatIdle /\ AnalysisIdle /\ ExtractionIdle /\ GridIdle /\ GroupingIdle
  /\ GogIdle
  /\ RestIdle

NextTime == GetTime

SpecTime == InitTime /\ [][NextTime]_vars

Abs(x) == IF x < 0 THEN 0 - x ELSE x

\* C5: for an offset inside the grid, the returned time hour:minute is a
\* multiple of 15 minutes and no multiple of 15 is nearer to the offset's
\* exact minute (60 pixels are 60 minutes); an offset above the top gives
\* 00:00.
C5_SnapsToNearestQuarter ==
  timeProbe.pc = "returned" =>
    LET m == timeProbe.hour * 60 + timeProbe.minute
    IN /\ timeProbe.y2 < 0 => m = 0
       /\ (timeProbe.y2 >= 0 /\ timeProbe.y2 < GridBottom2) =>
            /\ m % 15 = 0
            /\ \A k \in 0..96 :
                 Abs(2 * m - timeProbe.y2) <= Abs(2 * 15 * k - timeProbe.y2)

\* C5 witness: the offset 22.5 pixels, halfway between 00:15 and 00:30, has
\* been converted to 00:30
C5_Witness ==
  /\ timeProbe.pc = "returned"
  /\ timeProbe.y2 = 45
  /\ timeProbe.hour = 0 /\ timeProbe.minute = 30

\* C6: for every cursor position, also at or below the bottom edge,
\* getTimeFromY returns an hour between 0 and 23 and a minute in
\* {0, 15, 30, 45}.
C6_ValidTimeOfDay ==
  timeProbe.pc = "returned" =>
    /\ timeProbe.hour \in 0..23
    /\ timeProbe.minute \in {0, 15, 30, 45}

(***************************************************************************)
(* src/components/CalendarView.tsx : drag selection, event move / resize   *)
(***************************************************************************)
MaxPending == 2   \* onEventUpdate promises that are unsettled at one time

\* Cursor offsets (half pixels) used by the gestures: above the grid, inside
\* it (on and between quarter hours), in its last quarter hour and below it.
GestureOffsets == {-20, 15, 60, 1440, 2864, 2866, GridBottom2 + 60}

\* The timed events of the day shown; start and end are minutes after the
\* midnight of baseDate, as are all Date values below.
CalendarEvents ==
  { [id |-> 1, start |-> 60, end |-> 120],
    [id |-> 2, start |-> 1380, end |-> 1425] }

MinutesOf(time) == time.hour * 60 + time.minute

\* the props called by the handler that has just run: none
NoCalls(g) == [g EXCEPT !.select = NULL, !.update = NULL]

\* handleMouseUp with the selection's end taken as dragged, no minimum length
FinalEndMinutes_NoMinimum(minMinutes, maxMinutes) == maxMinutes

\* line 211: Math.max(minMinutes + 15, maxMinutes)
FinalEndMinutes(minMinutes, maxMinutes) == Max(minMinutes + 15, maxMinutes)

\* the grid's onMouseDown = handleMouseDown, lines 171-182 (onDragSelect is
\* always passed by App); a press on an event does not reach it
GridMouseDown(y2) ==
  /\ IF gridCalls.mode # "day"
       THEN /\ UNCHANGED <<isDragging, dragSelection>>
            /\ gridCalls' = NoCalls(gridCalls)
       ELSE LET time == getTimeFromY(y2)
            IN /\ isDragging' = TRUE
               /\ dragSelection' = [startHour |-> time.hour, startMinute |-> time.minute,
                                    endHour |-> time.hour, endMinute |-> time.minute + 30]
               /\ gridCalls' = [NoCalls(gridCalls) EXCEPT !.press = MinutesOf(time),
                                                          !.cursor = MinutesOf(time)]
  /\ UNCHANGED eventDrag
  /\ UNCHANGED <<chatVars, analysis, extraction, timeProbe, grouping, gogCall,
               restVars>>

\* handleEventDragStart, lines 239-259, from the onMouseDown of an event
\* ("move") or of its resize handle ("resize"); both stop the propagation
EventMouseDown(event, dragMode) ==
  /\ gridCalls.mode = "day"
  /\ eventDrag' = [eventId |-> event.id, mode |-> dragMode,
                   originalStart |-> event.start, originalEnd |-> event.end,
                   currentStart |-> event.start, currentEnd |-> event.end,
                   updating |-> FALSE]
  /\ gridCalls' = [NoCalls(gridCalls) EXCEPT !.updateCount = 0]
  /\ UNCHANGED <<isDragging, dragSelection>>
  /\ UNCHANGED <<chatVars, analysis, extraction, timeProbe, grouping, gogCall,
               restVars>>

\* the move branch with the end left where it was
MovedCopy_EndKept(time) ==
  [eventDrag EXCEPT !.currentStart = MinutesOf(time)]

\* lines 268-274, mode "move": the start goes to the cursor's time on
\* baseDate, the end follows at the original distance
MovedCopy(time) ==
  LET duration == eventDrag.originalEnd - eventDrag.originalStart
      newStart == MinutesOf(time)
  IN [eventDrag EXCEPT !.currentStart = newStart,
                       !.currentEnd = newStart + duration]

\* the resize branch without Math.max(startMinutes + 15, ...)
ResizedCopy_NoMinimum(time) ==
  [eventDrag EXCEPT !.currentEnd = MinutesOf(time)]

\* lines 275-283, mode "resize": the end goes to the cursor's time on
\* baseDate, no nearer than 15 minutes to the start's getHours, getMinutes
ResizedCopy(time) ==
  LET clickMinutes == MinutesOf(time)
      startMinutes == eventDrag.originalStart % (24 * 60)
      newEndMinutes == Max(startMinutes + 15, clickMinutes)
  IN [eventDrag EXCEPT !.currentEnd = newEndMinutes]

\* handleEventDragMove, lines 261-284: the in-progress copy after the move
DraggedEvent(y2) ==
  LET time == getTimeFromY(y2)
  IN IF eventDrag = NULL THEN NULL
     ELSE IF eventDrag.updating THEN eventDrag
     ELSE IF eventDrag.mode = "move" THEN MovedCopy(time)
     ELSE ResizedCopy(time)

\* the grid's onMouseMove: handleMouseMove (lines 184-193), then
\* handleEventDragMove
GridMouseMove(y2) ==
  /\ IF isDragging /\ gridCalls.mode = "day" /\ dragSelection # NULL
       THEN LET time == getTimeFromY(y2)
            IN /\ dragSelection' = [dragSelection EXCEPT !.endHour = time.hour,
                                                         !.endMinute = time.minute]
               /\ gridCalls' = [NoCalls(gridCalls) EXCEPT !.cursor = MinutesOf(time)]
       ELSE /\ UNCHANGED dragSelection
            /\ gridCalls' = NoCalls(gridCalls)
  /\ eventDrag' = DraggedEvent(y2)
  /\ UNCHANGED isDragging
  /\ UNCHANGED <<chatVars, analysis, extraction, timeProbe, grouping, gogCall,
               restVars>>

\* handleMouseUp, lines 195-221: the call of onDragSelect it makes, if any
SelectCall ==
  IF isDragging /\ dragSelection # NULL
    THEN LET startMinutes == dragSelection.startHour * 60 + dragSelection.startMinute
             endMinutes == dragSelection.endHour * 60 + dragSelection.endMinute
             minMinutes == IF startMinutes <= endMinutes THEN startMinutes ELSE endMinutes
             maxMinutes == IF startMinutes <= endMinutes THEN endMinutes ELSE startMinutes
             finalEndMinutes == FinalEndMinutes(minMinutes, maxMinutes)
         IN [startTime |-> minMinutes, endTime |-> finalEndMinutes,
             press |-> gridCalls.press, cursor |-> gridCalls.cursor]
    ELSE NULL

\* handleEventDragEnd without the test of eventDrag.updating
EventDragEnding_NoUpdatingGuard == eventDrag # NULL

\* line 287: handleEventDragEnd goes on only with an eventDrag that is not
\* updating (onEventUpdate is always passed by App)
EventDragEnding == eventDrag # NULL /\ ~eventDrag.updating

\* handleMouseUp followed by handleEventDragEnd (lines 286-304) up to its
\* await: the body of both onMouseUp and onMouseLeave
EndGesture ==
  LET ending == EventDragEnding
      changed == ending /\ (\/ eventDrag.currentStart # eventDrag.originalStart
                            \/ eventDrag.currentEnd # eventDrag.originalEnd)
  IN /\ isDragging' = FALSE
     /\ dragSelection' = NULL
     /\ changed => gridCalls.updatePending < MaxPending
     /\ eventDrag' = IF changed THEN [eventDrag EXCEPT !.updating = TRUE]
                     ELSE IF ending THEN NULL
                     ELSE eventDrag
     /\ gridCalls' =
          [gridCalls EXCEPT
             !.press = -1, !.cursor = -1,
             !.select = SelectCall,
             !.update = IF changed
                          THEN [eventId |-> eventDrag.eventId,
                                start |-> eventDrag.currentStart,
                                end |-> eventDrag.currentEnd]
                          ELSE NULL,
             !.updateCount = IF changed THEN @ + 1 ELSE @,
             !.updatePending = IF changed THEN @ + 1 ELSE @]

GridMouseUp ==
  /\ EndGesture
  /\ UNCHANGED <<chatVars, analysis, extraction, timeProbe, grouping, gogCall,
               restVars>>

GridMouseLeave ==
  /\ EndGesture
  /\ UNCHANGED <<chatVars, analysis, extraction, timeProbe, grouping, gogCall,
               restVars>>

\* the promise of onEventUpdate is fulfilled: handleEventDragEnd resumes
\* after its await with setEventDrag(null) (line 303)
UpdateFulfilled ==
  /\ gridCalls.updatePending > 0
  /\ gridCalls' = [NoCalls(gridCalls) EXCEPT !.updatePending = @ - 1]
  /\ eventDrag' = NULL
  /\ UNCHANGED <<isDragging, dragSelection>>
  /\ UNCHANGED <<chatVars, analysis, extraction, timeProbe, grouping, gogCall,
               restVars>>

\* the promise of onEventUpdate is rejected (App's handleEventUpdate lets the
\* API error through): the await throws and line 303 is not reached
UpdateRejected ==
  /\ gridCalls.updatePending > 0
  /\ gridCalls' = [NoCalls(gridCalls) EXCEPT !.updatePending = @ - 1]
  /\ UNCHANGED <<isDragging, dragSelection, eventDrag>>
  /\ UNCHANGED <<chatVars, analysis, extraction, timeProbe, grouping, gogCall,
               restVars>>

InitGrid ==
  /\ isDragging = FALSE
  /\ dragSelection = NULL
  /\ eventDrag = NULL
  /\ \E m \in {"day", "week"} :
       gridCalls = [mode |-> m, press |-> -1, cursor |-> -1, select |-> NULL,
                    updateCount |-> 0, updatePending |-> 0, update |-> NULL]
  /\ ChatIdle /\ AnalysisIdle /\ ExtractionIdle /\ TimeIdle /\ GroupingIdle
  /\ GogIdle
  /\ RestIdle

NextGrid ==
  \/ \E y2 \in GestureOffsets : GridMouseDown(y2)
  \/ \E y2 \in GestureOffsets : GridMouseMove(y2)
  \/ GridMouseUp
  \/ GridMouseLeave
  \/ \E ev \in CalendarEvents, dm \in {"move", "resize"} : EventMouseDown(ev, dm)
  \/ UpdateFulfilled
  \/ UpdateRejected

SpecGrid == InitGrid /\ [][NextGrid]_vars

\* C7: every call of onDragSelect carries a startTime strictly before its
\* endTime, an endTime at least 15 minutes after it, and as startTime the
\* earlier of the press point and the last cursor point of the gesture.
C7_DragSelectInterval ==
  gridCalls.select # NULL =>
    /\ gridCalls.select.startTime < gridCalls.select.endTime
    /\ gridCalls.select.endTime >= gridCalls.select.startTime + 15
    /\ gridCalls.select.startTime = Min(gridCalls.select.press, gridCalls.select.cursor)

\* C7 witness: a gesture dragged upward, from 12:00 to 00:15, has called
\* onDragSelect with the cursor point as start
C7_Witness ==
  /\ gridCalls.select # NULL
  /\ gridCalls.select.press = 720
  /\ gridCalls.select.cursor = 15
  /\ gridCalls.select.startTime = 15
  /\ gridCalls.select.endTime = 720

DraggedOriginal == CHOOSE ev \in CalendarEvents : ev.id = eventDrag.eventId

\* C24: in a resize gesture, whatever the cursor position of a mouse move,
\* the in-progress copy has the event's original start, and its end is at
\* least 15 minutes after the start's time of day (on the day shown).
C24_ResizeKeepsStart ==
  [][((\E y2 \in GestureOffsets : GridMouseMove(y2))
        /\ eventDrag # NULL /\ eventDrag.mode = "resize")
       => /\ eventDrag' # NULL
          /\ eventDrag'.currentStart = DraggedOriginal.start
          /\ eventDrag'.currentEnd >= (DraggedOriginal.start % (24 * 60)) + 15]_vars

\* C24 witness: event 2 (23:00-23:45) is being resized with the cursor above
\* its start; the copy ends at 23:15
C24_Witness ==
  /\ eventDrag # NULL
  /\ eventDrag.mode = "resize" /\ ~eventDrag.updating
  /\ eventDrag.eventId = 2
  /\ eventDrag.currentStart = 1380
  /\ eventDrag.currentEnd = 1395

\* C25: in a move gesture, whatever the cursor position of a mouse move, the
\* in-progress copy lasts as long as the original event, and the
\* onEventUpdate call made at the end of the gesture carries a start and an
\* end that far apart.
C25_MoveKeepsDuration ==
  /\ [][((\E y2 \in GestureOffsets : GridMouseMove(y2))
           /\ eventDrag # NULL /\ eventDrag.mode = "move")
          => /\ eventDrag' # NULL
             /\ eventDrag'.currentEnd - eventDrag'.currentStart
                  = DraggedOriginal.end - DraggedOriginal.start]_vars
  /\ []((gridCalls.update # NULL /\ eventDrag # NULL /\ eventDrag.mode = "move")
          => \E ev \in CalendarEvents :
               /\ ev.id = gridCalls.update.eventId
               /\ gridCalls.update.end - gridCalls.update.start = ev.end - ev.start)

\* C25 witness: event 1 (01:00-02:00) was moved to 12:00 and the gesture's
\* end has just called onEventUpdate with 12:00-13:00
C25_Witness ==
  /\ gridCalls.update # NULL
  /\ gridCalls.update.eventId = 1
  /\ gridCalls.update.start = 720
  /\ gridCalls.update.end = 780
  /\ eventDrag # NULL /\ eventDrag.mode = "move" /\ eventDrag.updating

(***************************************************************************)
(* src/components/TaskListColumn.tsx : groupTasks                          *)
(***************************************************************************)
MaxTasks == 2   \* tasks in the list handed to groupTasks

\* A calendar date is <<year, month, day>>. toDateString prints it as
\* YYYY-MM-DD with zero padding, so the code's comparison of two such
\* strings is the lexicographic comparison of the triples.
IsLeap(y) == (y % 4 = 0 /\ y % 100 # 0) \/ y % 400 = 0

DaysInMonth(y, m) ==
  CASE m \in {4, 6, 9, 11} -> 30
    [] m = 2 -> IF IsLeap(y) THEN 29 ELSE 28
    [] OTHER -> 31

Years == 2023..2025

AllDates ==
  {<<y, m, d>> : y \in Years, m \in 1..12, d \in 1..31} \
    {dt \in {<<y, m, d>> : y \in Years, m \in 1..12, d \in 1..31} :
       dt[3] > DaysInMonth(dt[1], dt[2])}

\* a < b on two YYYY-MM-DD strings
DateStrLess(a, b) ==
  \/ a[1] < b[1]
  \/ a[1] = b[1] /\ a[2] < b[2]
  \/ a[1] = b[1] /\ a[2] = b[2] /\ a[3] < b[3]

\* Date.prototype.setDate(getDate() + n) for 0 <= n <= 28: a day past the end
\* of the month rolls over into the next month, and December into January
SetDatePlus(dt, n) ==
  LET dim == DaysInMonth(dt[1], dt[2])
  IN IF dt[3] + n <= dim THEN <<dt[1], dt[2], dt[3] + n>>
     ELSE IF dt[2] = 12 THEN <<dt[1] + 1, 1, dt[3] + n - dim>>
     ELSE <<dt[1], dt[2] + 1, dt[3] + n - dim>>

\* A timestamp string is a date followed by T and a time of day;
\* toDateString(string) is split('T')[0], the date before the T.
NoDate == <<0, 0, 0>>
toDateString(stamp) == stamp.date

\* the day number of a date, counted from 1 January of the first year
RECURSIVE DaysBeforeYear(_)
DaysBeforeYear(y) ==
  IF y <= 2023 THEN 0
  ELSE DaysBeforeYear(y - 1) + (IF IsLeap(y - 1) THEN 366 ELSE 365)

RECURSIVE DaysBeforeMonth(_, _)
DaysBeforeMonth(y, m) ==
  IF m <= 1 THEN 0 ELSE DaysBeforeMonth(y, m - 1) + DaysInMonth(y, m - 1)

DayNumber(dt) == DaysBeforeYear(dt[1]) + DaysBeforeMonth(dt[1], dt[2]) + dt[3]

\* the clock of a groupTasks call, before a leap day, before the end of a
\* year, at the end of a month and in the middle of one
Clocks == {<<2024, 2, 25>>, <<2024, 12, 28>>, <<2025, 1, 31>>, <<2023, 6, 10>>}

DueOffsets == {-8, -1, 0, 1, 7, 8}
CompletedOffsets == {-1, 0}

DateAt(now, k) == CHOOSE dt \in AllDates : DayNumber(dt) = DayNumber(now) + k

Stamp(dt, t) == [date |-> dt, time |-> t]

\* the tasks a list can hold at a clock: status, optional due (midnight UTC)
\* and optional completed timestamp
TasksAt(now) ==
  [status : {"needsAction", "completed"},
   due : {Stamp(NoDate, "")} \cup {Stamp(DateAt(now, k), "00:00:00.000Z") : k \in DueOffsets},
   completed : {Stamp(NoDate, "")}
                 \cup {Stamp(DateAt(now, k), "09:30:00.000Z") : k \in CompletedOffsets}]

\* the bucket test with the week's last day left out (< instead of <=)
BucketOf_WeekEndExcluded(task, todayStr, weekEndStr) ==
  IF task.status = "completed"
    THEN IF task.completed.date # NoDate /\ toDateString(task.completed) = todayStr
           THEN "completed-today" ELSE "none"
  ELSE IF task.due.date = NoDate THEN "no-due"
  ELSE LET dueDateStr == toDateString(task.due)
       IN IF DateStrLess(dueDateStr, todayStr) THEN "overdue"
          ELSE IF dueDateStr = todayStr THEN "today"
          ELSE IF DateStrLess(dueDateStr, weekEndStr) THEN "this-week"
          ELSE "later"

\* the body of the for loop, lines 54-78, with isCompletedToday (lines
\* 34-37): the array the task is pushed on ("none" when it is skipped)
BucketOf(task, todayStr, weekEndStr) ==
  IF task.status = "completed"
    THEN IF task.completed.date # NoDate /\ toDateString(task.completed) = todayStr
           THEN "completed-today" ELSE "none"
  ELSE IF task.due.date = NoDate THEN "no-due"
  ELSE LET dueDateStr == toDateString(task.due)
       IN IF DateStrLess(dueDateStr, todayStr) THEN "overdue"
          ELSE IF dueDateStr = todayStr THEN "today"
          ELSE IF DateStrLess(dueDateStr, weekEndStr) \/ dueDateStr = weekEndStr
            THEN "this-week"
          ELSE "later"

\* the labels of the groups in the order of lines 82-99
GroupLabels == <<"overdue", "today", "this-week", "later", "no-due", "completed-today">>

\* groupTasks, lines 39-102: the groups in label order, each with the tasks
\* (by position in the list) pushed on its array, empty arrays left out
groupTasksResult(now, tasks) ==
  LET todayStr == now
      weekEndStr == SetDatePlus(now, 7)
      members(label) ==
        SelectSeq([i \in 1..Len(tasks) |-> i],
                  LAMBDA i : BucketOf(tasks[i], todayStr, weekEndStr) = label)
      all == [g \in 1..Len(GroupLabels) |->
                [label |-> GroupLabels[g], tasks |-> members(GroupLabels[g])]]
  IN SelectSeq(all, LAMBDA grp : Len(grp.tasks) > 0)

groupTasks ==
  /\ grouping.pc = "called"
  /\ grouping' = [grouping EXCEPT !.pc = "returned",
                                  !.groups = groupTasksResult(grouping.now, grouping.tasks)]
  /\ UNCHANGED <<chatVars, analysis, extraction, timeProbe, gridVars, gogCall,
               restVars>>

InitGroup ==
  /\ \E now \in Clocks :
       \E ts \in UNION {[1..n -> TasksAt(now)] : n \in 1..MaxTasks} :
         grouping = [pc |-> "called", now |-> now, tasks |-> ts, groups |-> << >>]
  /\ ChatIdle /\ AnalysisIdle /\ ExtractionIdle /\ TimeIdle /\ GridIdle /\ GogIdle
  /\ RestIdle

NextGroup == groupTasks

SpecGroup == InitGroup /\ [][NextGroup]_vars

\* the bucket the rule of the claim gives a task, by day numbers
ExpectedBucket(task, now) ==
  IF task.status = "completed"
    THEN IF task.completed.date # NoDate /\ DayNumber(task.completed.date) = DayNumber(now)
           THEN "completed-today" ELSE "none"
  ELSE IF task.due.date = NoDate THEN "no-due"
  ELSE LET d == DayNumber(task.due.date) - DayNumber(now)
       IN IF d < 0 THEN "overdue"
          ELSE IF d = 0 THEN "today"
          ELSE IF d <= 7 THEN "this-week"
          ELSE "later"

GroupsHolding(i) ==
  {g \in 1..Len(grouping.groups) :
     \E j \in 1..Len(grouping.groups[g].tasks) : grouping.groups[g].tasks[j] = i}

\* C9: for a fixed current date every task that is not completed is in
\* exactly one group, the one of its due date (none: no-due; before today:
\* overdue; today: today; up to today + 7 days: this-week; after: later); a
\* completed task is in the completed-today group, and only there, exactly
\* when it was completed today; no task is in two groups or twice in one, and
\* no group is empty.
C9_GroupsByDueDate ==
  grouping.pc = "returned" =>
    /\ \A i \in 1..Len(grouping.tasks) :
         LET expected == ExpectedBucket(grouping.tasks[i], grouping.now)
         IN /\ Cardinality(GroupsHolding(i)) = (IF expected = "none" THEN 0 ELSE 1)
            /\ \A g \in GroupsHolding(i) :
                 /\ grouping.groups[g].label = expected
                 /\ Cardinality({j \in 1..Len(grouping.groups[g].tasks) :
                                   grouping.groups[g].tasks[j] = i}) = 1
    /\ \A g \in 1..Len(grouping.groups) : Len(grouping.groups[g].tasks) > 0
    /\ \A g, h \in 1..Len(grouping.groups) :
         g # h => grouping.groups[g].label # grouping.groups[h].label

\* C9 witness: on 28 December a task due on 4 January of the next year, 7
\* days later, has been put in the this-week group
C9_Witness ==
  /\ grouping.pc = "returned"
  /\ grouping.now = <<2024, 12, 28>>
  /\ grouping.tasks[1].status = "needsAction"
  /\ grouping.tasks[1].due.date = <<2025, 1, 4>>
  /\ \E g \in 1..Len(grouping.groups) :
       grouping.groups[g].label = "this-week" /\ grouping.groups[g].tasks[1] = 1

(***************************************************************************)
(* server/services/gog.ts : execGogWithAccount / execGog                   *)
(***************************************************************************)
MaxArgs == 3   \* arguments handed to one call

\* An argument is a string or, coming from an unchecked JSON field (a title
\* that is a number, a title the AI tool left out), a value without a
\* replace method.
ArgKinds == {"string", "nonstring"}

ExitCodes == {"0", "1", "null"}      \* code of 'close': 0, non-zero, null (signal)
StdoutTexts == {"", "json", "text"}  \* trimmed stdout: empty, JSON, anything else
StderrTexts == {"", "stderr-text"}   \* trimmed stderr

\* the 'close' handler, lines 124-139: the value it resolves the promise with
CloseResult(code, stdout, stderr) ==
  IF code # "0"
    THEN [success |-> FALSE,
          error |-> IF stderr # "" THEN stderr ELSE "gog exited with code",
          data |-> "none"]
  ELSE IF stdout = "" THEN [success |-> TRUE, error |-> "none", data |-> "null"]
  ELSE IF stdout = "json" THEN [success |-> TRUE, error |-> "none", data |-> "parsed"]
  ELSE [success |-> FALSE, error |-> "Failed to parse gog output", data |-> "none"]

\* the 'error' handler, lines 141-143
ErrorResult == [success |-> FALSE, error |-> "err.message", data |-> "none"]

\* lines 108-119, the promise executor up to spawn: the account flag is
\* added, every argument is quoted with a.replace, the child is spawned. A
\* throw inside the executor rejects the promise.
Spawn ==
  /\ gogCall.pc = "called"
  /\ LET targetAccount == IF gogCall.account # "" THEN gogCall.account ELSE gogCall.primary
         allArgs == IF targetAccount # ""
                      THEN gogCall.args \o <<"string", "string">>
                      ELSE gogCall.args
         quotable == \A i \in 1..Len(allArgs) : allArgs[i] = "string"
     IN gogCall' = IF quotable
                     THEN [gogCall EXCEPT !.pc = "running", !.allArgs = allArgs,
                                          !.promise = "pending"]
                     ELSE [gogCall EXCEPT !.pc = "threw", !.allArgs = allArgs,
                                          !.promise = "rejected"]
  /\ UNCHANGED <<chatVars, analysis, extraction, timeProbe, gridVars, grouping,
               restVars>>

\* proc.on('error'): the child could not be spawned or signalled; resolve
\* has no effect on a promise that is already settled
ProcError ==
  /\ gogCall.pc = "running"
  /\ gogCall' = IF gogCall.promise = "pending"
                  THEN [gogCall EXCEPT !.pc = "errored", !.promise = "fulfilled",
                                       !.result = ErrorResult,
                                       !.first = [event |-> "error"]]
                  ELSE [gogCall EXCEPT !.pc = "errored"]
  /\ UNCHANGED <<chatVars, analysis, extraction, timeProbe, gridVars, grouping,
               restVars>>

\* proc.on('close'): the child's streams have ended, after its exit or after
\* a failed spawn
ProcClose(code, stdout, stderr) ==
  /\ gogCall.pc \in {"running", "errored"}
  /\ gogCall' = IF gogCall.promise = "pending"
                  THEN [gogCall EXCEPT !.pc = "closed", !.promise = "fulfilled",
                                       !.result = CloseResult(code, stdout, stderr),
                                       !.first = [event |-> "close", code |-> code,
                                                  stdout |-> stdout, stderr |-> stderr]]
                  ELSE [gogCall EXCEPT !.pc = "closed"]
  /\ UNCHANGED <<chatVars, analysis, extraction, timeProbe, gridVars, grouping,
               restVars>>

\* execGogWithAccount(args, account), and execGog(args), which passes
\* GOG_PRIMARY_ACCOUNT as the account (lines 147-150)
InitGog ==
  /\ \E args \in UNION {[1..n -> ArgKinds] : n \in 1..MaxArgs},
        account \in {"", "other-account"}, primary \in {"", "primary-account"} :
       gogCall = [pc |-> "called", args |-> args, account |-> account,
                  primary |-> primary, allArgs |-> << >>, promise |-> "none",
                  result |-> NULL, first |-> NULL]
  /\ ChatIdle /\ AnalysisIdle /\ ExtractionIdle /\ TimeIdle /\ GridIdle
  /\ GroupingIdle
  /\ RestIdle

NextGog ==
  \/ Spawn
  \/ ProcError
  \/ \E code \in ExitCodes, out \in StdoutTexts, err \in StderrTexts :
       ProcClose(code, out, err)

SpecGog == InitGog /\ [][NextGog]_vars

\* C10: every invocation settles as a value, never as a rejected promise: a
\* non-zero exit gives success=false with the stderr text, or with the
\* exit-code message when stderr is empty; a zero exit with unparsable stdout
\* gives success=false; a spawn error gives success=false; a zero exit with
\* empty or valid JSON stdout gives success=true.
C10_SettlesAsValue ==
  /\ gogCall.promise # "rejected"
  /\ gogCall.promise = "fulfilled" =>
       LET f == gogCall.first
           r == gogCall.result
       IN IF f.event = "error" THEN ~r.success
          ELSE IF f.code # "0"
            THEN /\ ~r.success
                 /\ r.error = (IF f.stderr # "" THEN f.stderr ELSE "gog exited with code")
          ELSE IF f.stdout = "text" THEN ~r.success
          ELSE r.success

(***************************************************************************)
(* server/routes/tasks.ts, server/routes/calendar.ts : the route handlers  *)
(* and the gog functions they await                                        *)
(***************************************************************************)
MaxServed == 3   \* requests served one after the other

\* what a settled execGog promise holds: the value of the 'close' handler or
\* of the 'error' handler
GogResults ==
  {CloseResult(code, out, err) :
     code \in ExitCodes, out \in StdoutTexts, err \in StderrTexts}
    \cup {ErrorResult}

\* the tasklists array inside parsed JSON output of 'tasks lists'
TaskListsJson == {"missing", "empty", "some"}

\* getTaskLists (lines 163-169) as getDefaultTaskListId reads it: the id of
\* the first list, "" when the call failed or there is none
FirstListId(result, lists) ==
  IF result.success /\ result.data = "parsed" /\ lists = "some" THEN "list1" ELSE ""

\* routes of the two routers; PATCH /tasks/:taskId is one of three by status
Routes ==
  {"GET /tasks/lists", "POST /tasks/lists", "DELETE /tasks/lists/:listId",
   "GET /tasks", "POST /tasks", "PATCH /tasks/:taskId completed",
   "PATCH /tasks/:taskId needsAction", "PATCH /tasks/:taskId",
   "DELETE /tasks/:taskId", "GET /calendar", "POST /calendar",
   "PATCH /calendar/:eventId"}

\* the gog functions that start with  listId || await getDefaultTaskListId()
UsesTaskList(route) ==
  route \in {"GET /tasks", "POST /tasks", "PATCH /tasks/:taskId completed",
             "PATCH /tasks/:taskId needsAction", "PATCH /tasks/:taskId",
             "DELETE /tasks/:taskId"}

\* the routes whose handler reads a required field from the body (title;
\* title, start and end)
HasRequiredFields(route) ==
  route \in {"POST /tasks/lists", "POST /tasks", "POST /calendar"}

\* the check of POST /calendar left out
Validates_TitleOnly(route) == route \in {"POST /tasks/lists", "POST /tasks"}

\* the handlers that answer 400 when a required body field is missing
Validates(route) == route \in {"POST /tasks/lists", "POST /tasks", "POST /calendar"}

SuccessStatus(route) ==
  IF route \in {"POST /tasks/lists", "POST /tasks", "POST /calendar"} THEN 201
  ELSE IF route \in {"DELETE /tasks/lists/:listId", "DELETE /tasks/:taskId"} THEN 204
  ELSE 200

\* An async handler whose promise rejects sends nothing itself. Express 4
\* ignores the rejection and the request stays unanswered; Express 5 hands
\* it to the default error handler, which answers 500 with an HTML page.
RejectedHandlerResponses ==
  {[status |-> 0, kind |-> "none", message |-> ""],
   [status |-> 500, kind |-> "html", message |-> ""]}

\* if (!result.success) { res.status(500).json({ message: result.error }) }
ErrorResponse(result) == [status |-> 500, kind |-> "json", message |-> result.error]

\* a request arrives: validation, then the gog function is called; without
\* a list id it first needs the default list (cached after the first lookup)
RouteReceive(route, listId, valid) ==
  /\ routeCall.pc \in {"idle", "done"}
  /\ routeCall.served < MaxServed
  /\ UsesTaskList(route) \/ listId = ""
  /\ HasRequiredFields(route) \/ valid
  /\ LET r == [routeCall EXCEPT !.route = route, !.listId = listId,
                                !.valid = valid,
                                !.lookedUp = FALSE,
                                !.served = @ + 1, !.cliFailure = "none",
                                !.response = [status |-> 0, kind |-> "none",
                                              message |-> ""]]
     IN routeCall' =
          IF Validates(route) /\ ~valid
            THEN [r EXCEPT !.pc = "done",
                           !.response = [status |-> 400, kind |-> "json",
                                         message |-> "required"]]
          ELSE IF UsesTaskList(route) /\ listId = "" /\ r.defaultTaskListId = ""
            THEN [r EXCEPT !.pc = "lookup"]
          ELSE [r EXCEPT !.pc = "op"]
  /\ UNCHANGED <<chatVars, analysis, extraction, timeProbe, gridVars, grouping,
                 gogCall, calendarRun, multiList,
               chatRun, fanOut, hookFetch, suggestHook>>

\* getDefaultTaskListId, lines 204-213: getTaskLists settles; the first id is
\* cached, or 'No task lists found' is thrown inside the handler
LookupSettles(result, lists, rejected) ==
  /\ routeCall.pc = "lookup"
  /\ result.success \/ lists = "missing"
  /\ routeCall' =
       IF FirstListId(result, lists) # ""
         THEN [routeCall EXCEPT !.pc = "op", !.lookedUp = TRUE,
                                !.defaultTaskListId = FirstListId(result, lists)]
         ELSE [routeCall EXCEPT !.pc = "done", !.lookedUp = TRUE,
                                !.cliFailure = IF result.success THEN "no-list"
                                               ELSE "lookup",
                                !.response = rejected]
  /\ UNCHANGED <<chatVars, analysis, extraction, timeProbe, gridVars, grouping,
                 gogCall, calendarRun, multiList,
               chatRun, fanOut, hookFetch, suggestHook>>

\* the awaited gog function settles and the handler answers
OpSettles(result) ==
  /\ routeCall.pc = "op"
  /\ routeCall' =
       IF result.success
         THEN [routeCall EXCEPT !.pc = "done",
                                !.response = [status |-> SuccessStatus(routeCall.route),
                                              kind |-> "json", message |-> ""]]
         ELSE [routeCall EXCEPT !.pc = "done", !.cliFailure = "op",
                                !.response = ErrorResponse(result)]
  /\ UNCHANGED <<chatVars, analysis, extraction, timeProbe, gridVars, grouping,
                 gogCall, calendarRun, multiList,
               chatRun, fanOut, hookFetch, suggestHook>>

InitRoutes ==
  /\ RoutesIdle
  /\ ChatIdle /\ AnalysisIdle /\ ExtractionIdle /\ TimeIdle /\ GridIdle
  /\ GroupingIdle /\ GogIdle /\ CalendarRunIdle /\ MultiListIdle
  /\ ChatRunIdle /\ FanOutIdle /\ HooksIdle /\ SuggestIdle

NextRoutes ==
  \/ \E route \in Routes, listId \in {"", "list2"}, valid \in BOOLEAN :
       RouteReceive(route, listId, valid)
  \/ \E result \in GogResults, lists \in TaskListsJson,
        rejected \in RejectedHandlerResponses :
       LookupSettles(result, lists, rejected)
  \/ \E result \in GogResults : OpSettles(result)

SpecRoutes == InitRoutes /\ [][NextRoutes]_vars

\* C11: whenever the CLI failed while a tasks or calendar request was served
\* (the operation itself, or the task-list lookup of a request that names no
\* list, which may also come back empty), the request has ended with an HTTP
\* error status and a JSON body carrying an error message.
C11_CliFailureAnswered ==
  (routeCall.pc = "done" /\ routeCall.cliFailure # "none") =>
     /\ routeCall.response.status >= 400
     /\ routeCall.response.kind = "json"
     /\ routeCall.response.message # ""

(***************************************************************************)
(* server/index.ts : the tasks, calendar and suggestions routers mounted   *)
(* in one process                                                          *)
(***************************************************************************)
MaxServerChats == 2      \* /chat requests with a message, all sessions together
MaxServerRequests == 2   \* requests to the tasks and calendar routes

NextServer ==
  \/ \E route \in Routes, listId \in {"", "list2"}, valid \in BOOLEAN :
       /\ routeCall.served < MaxServerRequests
       /\ RouteReceive(route, listId, valid)
  \/ \E result \in GogResults, lists \in TaskListsJson,
        rejected \in RejectedHandlerResponses :
       LookupSettles(result, lists, rejected)
  \/ \E result \in GogResults : OpSettles(result)
  \/ \E i \in 1..MaxInFlight, s \in Sessions, m \in BOOLEAN :
       /\ chatCount["default"].received + chatCount["s2"].received < MaxServerChats
       /\ ChatReceive(i, s, m)
  \/ \E i \in 1..MaxInFlight : ChatRespond(i)

SpecServer == InitRoutes /\ [][NextServer]_vars

\* C22: a request without a required field (POST /tasks or /tasks/lists
\* without title, POST /calendar without title, start or end, POST /chat
\* without message) is answered 400 at once: it never waits for an external
\* process, and the step that receives it changes neither the conversation
\* map, nor any history, nor the cached default list.
C22_InvalidRejectedUntouched ==
  /\ []((routeCall.pc # "idle" /\ ~routeCall.valid) =>
          /\ routeCall.pc = "done"
          /\ ~routeCall.lookedUp
          /\ routeCall.response.status = 400)
  /\ [](\A i \in 1..MaxInFlight :
          (requests[i].pc # "free" /\ ~requests[i].hasMessage) =>
             requests[i].pc = "responded" /\ requests[i].status = 400)
  /\ [][(routeCall'.served > routeCall.served /\ ~routeCall'.valid) =>
          /\ routeCall'.defaultTaskListId = routeCall.defaultTaskListId
          /\ UNCHANGED <<conversations, arrays, appended>>]_vars
  /\ [][\A i \in 1..MaxInFlight :
          (requests'[i] # requests[i] /\ ~requests'[i].hasMessage) =>
             /\ UNCHANGED <<conversations, arrays, appended>>
             /\ routeCall'.defaultTaskListId = routeCall.defaultTaskListId]_vars

\* C22 witness: with a history stored for the session and the default list
\* cached, a POST /calendar without its fields and a /chat without message
\* have both been answered 400
C22_Witness ==
  /\ routeCall.pc = "done" /\ ~routeCall.valid
  /\ routeCall.route = "POST /calendar"
  /\ routeCall.response.status = 400
  /\ routeCall.defaultTaskListId = "list1"
  /\ \E i \in 1..MaxInFlight :
       /\ requests[i].pc = "responded" /\ requests[i].status = 400
       /\ Len(StoredHistory(requests[i].session)) = 2

(***************************************************************************)
(* server/routes/suggestions.ts : one /chat handler from the extraction to *)
(* the response (lines 70-165), the existing tasks having been fetched     *)
(***************************************************************************)
MaxRunTasks == 2   \* tasks in the AI tool's output of one /chat request

\* the history of the session before the request: n messages, user and
\* assistant in turn; the last five hold the text recent, the older ones the
\* text old
PriorHistory(n, recent, old) ==
  [k \in 1..n |->
     IF k % 2 = 1 THEN UserMessage(<<IF k > n - 5 THEN recent ELSE old>>)
     ELSE AssistantMessage(<<IF k > n - 5 THEN recent ELSE old>>)]

PriorLengths == {0, 6, MaxHistory}

\* lines 72-75: the last 6 messages, each as "<speaker>: <content>"
RecentContext(history) ==
  LET recent == LastN(history, 6)
  IN [k \in 1..Len(recent) |->
        [speaker |-> IF recent[k].role = "user" THEN "yuza" ELSE "AI",
         content |-> recent[k].content]]

\* the prompt of extractTasksWithClaude, lines 44-106: the fixed text with
\* today (and tomorrow and Friday, computed from it), the list of existing
\* tasks and the user message filled in
BuildPrompt(userMessage, conversationContext, today, existingTasks) ==
  [today |-> today, existingTasksStr |-> existingTasks, userMessage |-> userMessage]

\* What the AI tool prints during one request, as in ExtractOutputs, with up
\* to MaxRunTasks tasks, each with one of the five actions
RunOutputs ==
  {[kind |-> k, tasksKind |-> "missing", tasks |-> << >>, hasResponse |-> FALSE, count |-> 0]
     : k \in {"error", "malformed", "none"}}
  \cup {[kind |-> "object", tasksKind |-> "array", tasks |-> ts, hasResponse |-> r, count |-> 0]
     : ts \in UNION {[1..n -> {t \in AiTasks : t.action \in TaskActions}]
                       : n \in 0..MaxRunTasks},
       r \in BOOLEAN}
  \cup {[kind |-> "array", tasksKind |-> "array", tasks |-> << >>, hasResponse |-> FALSE, count |-> n]
     : n \in 0..MaxRunTasks}

\* lines 114-136: the task-service function the handler calls for a task
\* ("none" when it calls nothing)
ChatOperation(task) ==
  IF task.existingTaskId # "" /\ task.existingListId # ""
    THEN CASE task.action = "update"     -> "updateTask"
           [] task.action = "delete"     -> "deleteTask"
           [] task.action = "complete"   -> "completeTask"
           [] task.action = "uncomplete" -> "uncompleteTask"
           [] OTHER                      -> "createTask"
  ELSE IF task.action = "add" THEN "createTask"
  ELSE "none"

\* How an awaited task-service call ends: it resolves with success=true, it
\* resolves with success=false (the CLI failed), or it rejects (createTask
\* finds no default list; a title that is not a string reaches execGog).
OperationOutcomes(op) ==
  IF op = "none" THEN {"not-called"}
  ELSE IF op \in {"createTask", "updateTask"} THEN {"ok", "failed", "threw"}
  ELSE {"ok", "failed"}

\* lines 137-141: the entry pushed for a task
ExecutedEntry(task, op, outcome) ==
  [action |-> task.action, operation |-> op, outcome |-> outcome,
   success |-> outcome # "threw",
   \* the task and list the call was made with (createTask names neither)
   taskId |-> IF op \in {"none", "createTask"} THEN "" ELSE task.existingTaskId,
   listId |-> IF op \in {"none", "createTask"} THEN "" ELSE task.existingListId]

\* line 147 without the push
PushAssistant_Skipped(history, text) == history

\* line 147: history.push({ role: 'assistant', content: result.response })
PushAssistant(history, text) == Append(history, AssistantMessage(<<text>>))

\* lines 144-157, once the loop over result.tasks has ended: the assistant
\* message is pushed, the history trimmed and the response sent
FinishedRun(run) ==
  [run EXCEPT !.pc = "responded",
              !.history = TrimHistory(PushAssistant(run.history, run.result.response)),
              !.status = 200,
              !.response = run.result.response]

\* line 106 and what follows without a further await: the prompt is built
\* and the AI tool run; with no task to execute the handler responds
ChatExtract(out) ==
  /\ chatRun.pc = "extracting"
  /\ LET result == ExtractResult(chatRun.message, out)
         run == [chatRun EXCEPT
                   !.prompt = BuildPrompt(chatRun.message, RecentContext(chatRun.history),
                                          chatRun.today, ExistingTasks),
                   !.twinPrompt = BuildPrompt(chatRun.message,
                                              RecentContext(chatRun.twinHistory),
                                              chatRun.today, ExistingTasks),
                   !.output = out, !.result = result, !.idx = 1]
     IN chatRun' = IF Len(result.tasks) = 0 THEN FinishedRun(run)
                   ELSE [run EXCEPT !.pc = "executing"]
  /\ UNCHANGED <<chatVars, analysis, extraction, timeProbe, gridVars, grouping,
                 gogCall, calendarRun, multiList,
               routeCall, fanOut, hookFetch, suggestHook>>

\* one iteration of the loop, lines 112-142: the call for the task settles
\* (or no call is made) and the entry is pushed; after the last task the
\* handler responds
ChatExecuteTask(outcome) ==
  /\ chatRun.pc = "executing"
  /\ LET task == chatRun.result.tasks[chatRun.idx]
         op == ChatOperation(task)
         run == [chatRun EXCEPT
                   !.idx = @ + 1,
                   !.calls = IF op = "none" THEN @ ELSE Append(@, op),
                   !.executedTasks = Append(@, ExecutedEntry(task, op, outcome))]
     IN /\ outcome \in OperationOutcomes(op)
        /\ chatRun' = IF chatRun.idx = Len(chatRun.result.tasks)
                        THEN FinishedRun(run) ELSE run
  /\ UNCHANGED <<chatVars, analysis, extraction, timeProbe, gridVars, grouping,
                 gogCall, calendarRun, multiList,
               routeCall, fanOut, hookFetch, suggestHook>>

\* lines 54-68: a request with a message arrived for a session and the user
\* message was pushed. The twin is the history of a second session that
\* gets the same message on the same day with the same tasks.
InitChatRun ==
  /\ \E msg \in {<<"x">>, <<"saku", "jo">>}, n \in PriorLengths,
        recent \in {"p", "q"}, old \in {"p", "q"} :
       chatRun = [pc |-> "extracting", message |-> msg, today |-> "2025-01-10",
                  history |-> Append(PriorHistory(n, "p", "p"), UserMessage(msg)),
                  twinHistory |-> Append(PriorHistory(n, recent, old), UserMessage(msg)),
                  prompt |-> NULL, twinPrompt |-> NULL, output |-> NULL,
                  result |-> NULL, idx |-> 0, calls |-> << >>,
                  executedTasks |-> << >>, status |-> 0, response |-> ""]
  /\ ChatIdle /\ AnalysisIdle /\ ExtractionIdle /\ TimeIdle /\ GridIdle
  /\ GroupingIdle /\ GogIdle /\ CalendarRunIdle /\ MultiListIdle
  /\ RoutesIdle /\ FanOutIdle /\ HooksIdle /\ SuggestIdle

NextChatRun ==
  \/ \E out \in RunOutputs : ChatExtract(out)
  \/ \E outcome \in {"ok", "failed", "threw", "not-called"} : ChatExecuteTask(outcome)

SpecChatRun == InitChatRun /\ [][NextChatRun]_vars

\* the AI tool failed: the process failed or timed out, or its output is
\* not parsable (a {...} that is not JSON, or no JSON at all)
AiToolFailed == chatRun.output.kind \in {"error", "malformed", "none"}

\* C13: when the AI tool fails during a /chat request, the extraction gives
\* a fixed apology text and no tasks, the handler calls no task-service
\* function, and it answers 200 with that text, which is the assistant
\* message at the end of the history.
C13_AiFailureDegrades ==
  (chatRun.pc \in {"executing", "responded"} /\ AiToolFailed) =>
     /\ chatRun.result.tasks = << >>
     /\ chatRun.result.response \in {"ai-error-apology", "could-not-extract"}
     /\ chatRun.calls = << >> /\ chatRun.executedTasks = << >>
     /\ chatRun.pc = "responded"
     /\ chatRun.status = 200
     /\ chatRun.response = chatRun.result.response
     /\ chatRun.history[Len(chatRun.history)] =
          [role |-> "assistant", content |-> <<chatRun.result.response>>]

\* C13 witness: the AI tool's process failed, and the handler has answered
\* 200 with the apology as the last message of a full history
C13_Witness ==
  /\ chatRun.pc = "responded"
  /\ chatRun.output.kind = "error"
  /\ chatRun.status = 200
  /\ chatRun.response = "ai-error-apology"
  /\ Len(chatRun.history) = MaxHistory
  /\ chatRun.history[MaxHistory].role = "assistant"

\* C16: two /chat requests with the same message, date and tasks whose
\* sessions differ in their last 6 messages send different prompts to the AI
\* tool.
C16_PromptDependsOnHistory ==
  (/\ chatRun.pc \in {"executing", "responded"}
   /\ LastN(chatRun.history, 6) # LastN(chatRun.twinHistory, 6)) =>
     chatRun.prompt # chatRun.twinPrompt

\* C20: every executedTasks entry with success=true stands for a
\* task-service call that the handler made for the action and that reported
\* success.
C20_SuccessIsTruthful ==
  \A j \in 1..Len(chatRun.executedTasks) :
    chatRun.executedTasks[j].success =>
      /\ chatRun.executedTasks[j].operation # "none"
      /\ chatRun.executedTasks[j].outcome = "ok"

\* the task-service function that carries out an action on an existing task
OperationFor(action) ==
  CASE action = "update"     -> "updateTask"
    [] action = "delete"     -> "deleteTask"
    [] action = "complete"   -> "completeTask"
    [] action = "uncomplete" -> "uncompleteTask"
    [] OTHER                 -> "createTask"

\* C21: for every task of the extraction that carries an update, delete,
\* complete or uncomplete bound to the id of a task in one of the user's
\* lists, the handler calls the function for that action with that task and
\* the list it is in; an uncomplete naming the completed task t9 leads to
\* an uncompleteTask call for t9.
C21_BoundActionExecuted ==
  \A j \in 1..Len(chatRun.executedTasks) :
    LET task == chatRun.result.tasks[j]
        entry == chatRun.executedTasks[j]
    IN (/\ task.existingTaskId \in {"t1", "t9"}
        /\ task.action \in {"update", "delete", "complete", "uncomplete"}) =>
          /\ entry.operation = OperationFor(task.action)
          /\ entry.taskId = task.existingTaskId
          /\ entry.listId = "list1"

(***************************************************************************)
(* server/services/gog.ts : getCalendarEventsAllAccounts and               *)
(* searchEmailsAllAccounts over GOG_ACCOUNTS                               *)
(***************************************************************************)
MaxAccounts == 2   \* configured accounts

\* What one per-account read (getCalendarEvents / searchEmails) resolves to:
\* success with a list of items (here up to two, given by their dates),
\* success without data (the CLI printed nothing), or a failure with its
\* error text. "pending" is a read that has not settled.
AccountResults ==
  {[success |-> TRUE, hasData |-> TRUE, data |-> d, error |-> ""]
     : d \in {<< >>, <<1>>, <<2>>, <<2, 1>>}}
    \cup {[success |-> TRUE, hasData |-> FALSE, data |-> << >>, error |-> ""]}
    \cup {[success |-> FALSE, hasData |-> FALSE, data |-> << >>, error |-> e]
     : e \in {"stderr-text", "gog exited with code"}}

Pending == [success |-> FALSE, hasData |-> FALSE, data |-> << >>, error |-> "pending"]

\* Array.prototype.sort (stable) of items by date: ascending for the events
\* (localeCompare of the start), descending for the threads (newest first)
RECURSIVE InsertSorted(_, _, _)
InsertSorted(sorted, x, ascending) ==
  IF sorted = << >> THEN <<x>>
  ELSE IF (ascending /\ x < Head(sorted)) \/ (~ascending /\ x > Head(sorted))
    THEN <<x>> \o sorted
  ELSE <<Head(sorted)>> \o InsertSorted(Tail(sorted), x, ascending)

RECURSIVE SortByDate(_, _)
SortByDate(items, ascending) ==
  IF items = << >> THEN << >>
  ELSE InsertSorted(SortByDate(SubSeq(items, 1, Len(items) - 1), ascending),
                    items[Len(items)], ascending)

\* the loop over the results, lines 375-381 / 453-459
RECURSIVE CollectedItems(_)
CollectedItems(results) ==
  IF results = << >> THEN << >>
  ELSE (IF Head(results).success /\ Head(results).hasData
          THEN Head(results).data ELSE << >>) \o CollectedItems(Tail(results))

RECURSIVE CollectedErrors(_)
CollectedErrors(results) ==
  IF results = << >> THEN << >>
  ELSE (IF ~(Head(results).success /\ Head(results).hasData) /\ Head(results).error # ""
          THEN <<Head(results).error>> ELSE << >>) \o CollectedErrors(Tail(results))

\* lines 372-393 / 450-472: what the call returns once Promise.all has
\* resolved; errors.join('; ') is kept as the list of the joined texts
CombinedResult(kind, results) ==
  LET all == SortByDate(CollectedItems(results), kind = "calendar")
      limited == IF kind = "emails" THEN FirstN(all, 10) ELSE all
      errors == CollectedErrors(results)
  IN IF Len(limited) = 0 /\ Len(errors) > 0
       THEN [success |-> FALSE, data |-> << >>, error |-> errors]
       ELSE [success |-> TRUE, data |-> limited, error |-> << >>]

\* the call: without accounts it returns at once, otherwise one read per
\* account is started
FanOutCall(kind, n) ==
  /\ fanOut.pc \in {"idle", "returned"}
  /\ fanOut' = IF n = 0
                 THEN [pc |-> "returned", kind |-> kind, accounts |-> 0,
                       results |-> << >>,
                       combined |-> [success |-> FALSE, data |-> << >>,
                                     error |-> <<"No accounts configured">>]]
                 ELSE [pc |-> "reading", kind |-> kind, accounts |-> n,
                       results |-> [a \in 1..n |-> Pending], combined |-> NULL]
  /\ UNCHANGED <<chatVars, analysis, extraction, timeProbe, gridVars, grouping,
                 gogCall, calendarRun, multiList,
               routeCall, chatRun, hookFetch, suggestHook>>

\* the read of one account settles; with the last one Promise.all resolves
\* and the call returns
AccountSettles(a, result) ==
  /\ fanOut.pc = "reading"
  /\ a \in 1..fanOut.accounts
  /\ fanOut.results[a] = Pending
  /\ LET results == [fanOut.results EXCEPT ![a] = result]
     IN fanOut' =
          IF \A b \in 1..fanOut.accounts : results[b] # Pending
            THEN [fanOut EXCEPT !.pc = "returned", !.results = results,
                                !.combined = CombinedResult(fanOut.kind, results)]
            ELSE [fanOut EXCEPT !.results = results]
  /\ UNCHANGED <<chatVars, analysis, extraction, timeProbe, gridVars, grouping,
                 gogCall, calendarRun, multiList,
               routeCall, chatRun, hookFetch, suggestHook>>

InitFanOut ==
  /\ FanOutIdle
  /\ ChatIdle /\ AnalysisIdle /\ ExtractionIdle /\ TimeIdle /\ GridIdle
  /\ GroupingIdle /\ GogIdle /\ CalendarRunIdle /\ MultiListIdle
  /\ RoutesIdle /\ ChatRunIdle /\ HooksIdle /\ SuggestIdle

NextFanOut ==
  \/ \E kind \in {"calendar", "emails"}, n \in 0..MaxAccounts : FanOutCall(kind, n)
  \/ \E a \in 1..MaxAccounts, result \in AccountResults : AccountSettles(a, result)

SpecFanOut == InitFanOut /\ [][NextFanOut]_vars

\* C14: the read over all accounts returns success only when the read of
\* every account succeeded; when the read of any account failed, it returns
\* a failure that carries the collected error texts.
C14_AllOrNothing ==
  fanOut.pc = "returned" =>
    /\ fanOut.combined.success =>
         \A a \in 1..fanOut.accounts : fanOut.results[a].success
    /\ (\E a \in 1..fanOut.accounts : ~fanOut.results[a].success) =>
         /\ ~fanOut.combined.success
         /\ fanOut.combined.error = CollectedErrors(fanOut.results)

(***************************************************************************)
(* src/hooks : useCalendar.fetchEvents and useMultiListTasks.fetchAllTasks *)
(***************************************************************************)
MaxFetches == 2   \* fetches one hook starts

\* requests behind one fetch: one for the events of the date range, one per
\* task list (two lists here) joined by Promise.all
PartsOf(hook) == IF hook = "useCalendar" THEN 1 ELSE 2

\* what the server answers to one request: the data at some version, for the
\* date range asked for (0 for tasks)
Answers(range) == {[range |-> range, version |-> v] : v \in 1..2}

\* setEvents(data) / setTasksByList(newTasksByList) for fetches other than
\* the one started last left out
StateAfterFetch_LatestStartedOnly(current, f, response) ==
  IF f = hookFetch.started THEN response ELSE current

\* setEvents(data), useAiChat.ts line 98; setTasksByList(newTasksByList),
\* useSuggestions.ts lines 179-183: the state becomes the response
StateAfterFetch(current, f, response) == response

\* fetchEvents / fetchAllTasks is called (by the effect, the 60 s interval
\* or refresh) and sends its requests; fetches already in flight stay
FetchStart(range) ==
  /\ hookFetch.started < MaxFetches
  /\ range \in (IF hookFetch.hook = "useCalendar" THEN 1..2 ELSE {0})
  /\ hookFetch' =
       [hookFetch EXCEPT
          !.started = @ + 1,
          !.fetches = Append(@, [pc |-> "inflight", range |-> range,
                                 parts |-> [k \in 1..PartsOf(hookFetch.hook) |-> NULL]])]
  /\ UNCHANGED <<chatVars, analysis, extraction, timeProbe, gridVars, grouping,
                 gogCall, calendarRun, multiList,
               routeCall, chatRun, fanOut, suggestHook>>

\* one request of a fetch is answered; with the last one the await resolves
\* and the state is set
PartResolves(f, k, answer) ==
  /\ f \in 1..Len(hookFetch.fetches)
  /\ hookFetch.fetches[f].pc = "inflight"
  /\ k \in 1..PartsOf(hookFetch.hook)
  /\ hookFetch.fetches[f].parts[k] = NULL
  /\ answer \in Answers(hookFetch.fetches[f].range)
  /\ LET parts == [hookFetch.fetches[f].parts EXCEPT ![k] = answer]
     IN hookFetch' =
          IF \A j \in 1..Len(parts) : parts[j] # NULL
            THEN [hookFetch EXCEPT
                    !.fetches[f] = [@ EXCEPT !.pc = "fulfilled", !.parts = parts],
                    !.value = StateAfterFetch(@, f, parts),
                    !.resolvedOrder = Append(@, f)]
            ELSE [hookFetch EXCEPT !.fetches[f].parts = parts]
  /\ UNCHANGED <<chatVars, analysis, extraction, timeProbe, gridVars, grouping,
                 gogCall, calendarRun, multiList,
               routeCall, chatRun, fanOut, suggestHook>>

\* one request of a fetch fails: the await throws, the catch leaves the
\* state as it is
PartRejects(f) ==
  /\ f \in 1..Len(hookFetch.fetches)
  /\ hookFetch.fetches[f].pc = "inflight"
  /\ hookFetch' = [hookFetch EXCEPT !.fetches[f].pc = "rejected"]
  /\ UNCHANGED <<chatVars, analysis, extraction, timeProbe, gridVars, grouping,
                 gogCall, calendarRun, multiList,
               routeCall, chatRun, fanOut, suggestHook>>

InitHooks ==
  /\ \E hook \in {"useCalendar", "useMultiListTasks"} :
       hookFetch = [hook |-> hook, value |-> << >>, started |-> 0,
                    fetches |-> << >>, resolvedOrder |-> << >>]
  /\ ChatIdle /\ AnalysisIdle /\ ExtractionIdle /\ TimeIdle /\ GridIdle
  /\ GroupingIdle /\ GogIdle /\ CalendarRunIdle /\ MultiListIdle
  /\ RoutesIdle /\ ChatRunIdle /\ FanOutIdle /\ SuggestIdle

NextHooks ==
  \/ \E range \in 0..2 : FetchStart(range)
  \/ \E f \in 1..MaxFetches, k \in 1..2, range \in 0..2 :
       \E answer \in Answers(range) : PartResolves(f, k, answer)
  \/ \E f \in 1..MaxFetches : PartRejects(f)

SpecHooks == InitHooks /\ [][NextHooks]_vars

\* C15: a fetch in flight is never cancelled (it stays in flight until its
\* own requests settle), and once fetches of the hook have resolved, the
\* state holds the response of the one that resolved last, whichever was
\* started last.
C15_LastResolvedWins ==
  /\ [](hookFetch.resolvedOrder # << >> =>
          hookFetch.value =
            hookFetch.fetches[hookFetch.resolvedOrder[Len(hookFetch.resolvedOrder)]].parts)
  /\ [][\A f \in 1..Len(hookFetch.fetches) :
          hookFetch.fetches[f].pc = "inflight" =>
            \/ hookFetch.fetches'[f].pc = "inflight"
            \/ /\ hookFetch.fetches'[f].pc \in {"fulfilled", "rejected"}
               /\ \A g \in 1..Len(hookFetch.fetches) :
                    g # f => hookFetch.fetches'[g] = hookFetch.fetches[g]]_vars

\* C15 witness: two fetches overlapped, the one started last resolved first,
\* and the state is the different response of the one started first
C15_Witness ==
  /\ hookFetch.resolvedOrder = <<2, 1>>
  /\ hookFetch.fetches[1].parts # hookFetch.fetches[2].parts
  /\ hookFetch.value = hookFetch.fetches[1].parts

(***************************************************************************)
(* src/hooks/useSuggestions.ts : analyze, dismiss, clearDismissed and the  *)
(* dismissed source ids kept in localStorage                               *)
(***************************************************************************)
MaxAnalyses == 3   \* analyze calls
MaxMounts == 2     \* times the hook is created

\* getDismissedIds, lines 8-18: the set of the ids in the stored JSON array,
\* the empty set when the key is absent
getDismissedIds(storage) ==
  IF ~storage.present THEN {} ELSE {storage.ids[k] : k \in 1..Len(storage.ids)}

\* dismissed.add(sourceId) and saveDismissedIds, lines 20-22 and 95-97: the
\* array of the set's members in insertion order
SavedWith(storage, sourceId) ==
  [present |-> TRUE,
   ids |-> IF sourceId \in getDismissedIds(storage) THEN storage.ids
           ELSE Append(IF storage.present THEN storage.ids ELSE << >>, sourceId)]

\* the filter passing every item
filterDismissed_Unfiltered(items, storage) == items

\* filterDismissed, lines 46-49
filterDismissed(items, storage) ==
  SelectSeq(items, LAMBDA sg : sg.sourceId \notin getDismissedIds(storage))

\* the suggestions of the n-th analysis for the given source ids: every
\* analysis gives fresh ids to its suggestions
SuggestionsFor(n, src, sourceIds) ==
  [k \in 1..Len(sourceIds) |->
     [id |-> <<src, n, k>>, source |-> src, sourceId |-> sourceIds[k]]]

\* what the server found: for the mail, nothing, one suggestion, two for the
\* same mail, or one for each of two mails; for the calendar, nothing or one
GmailFindings == {<< >>, <<"m1">>, <<"m1", "m1">>, <<"m1", "m2">>}
CalendarFindings == {<< >>, <<"c1">>}

\* the body of the analyze response (routes/suggestions.ts lines 11-26) for
\* the source asked for ("both" asks for no source)
AnalyzeBody(n, source, mail, cal) ==
  LET gmail == SuggestionsFor(n, "gmail", mail)
      calendar == SuggestionsFor(n, "calendar", cal)
  IN CASE source = "gmail" ->
            [suggestions |-> gmail, hasGmail |-> FALSE, gmail |-> << >>,
             hasCalendar |-> FALSE, calendar |-> << >>]
       [] source = "calendar" ->
            [suggestions |-> calendar, hasGmail |-> FALSE, gmail |-> << >>,
             hasCalendar |-> FALSE, calendar |-> << >>]
       [] OTHER ->
            [suggestions |-> gmail \o calendar, hasGmail |-> TRUE, gmail |-> gmail,
             hasCalendar |-> TRUE, calendar |-> calendar]

\* filter((s) => s.id !== suggestion.id), lines 100-102
WithoutId(items, id) == SelectSeq(items, LAMBDA sg : sg.id # id)

\* analyze(source) is called and sends its request
AnalyzeStart(source) ==
  /\ suggestHook.mounts > 0
  /\ suggestHook.analyses < MaxAnalyses
  /\ Len(suggestHook.pending) < 2
  /\ suggestHook' =
       [suggestHook EXCEPT
          !.pending = Append(@, [source |-> source, n |-> suggestHook.analyses + 1]),
          !.analyses = @ + 1, !.stored = NULL]
  /\ UNCHANGED <<chatVars, analysis, extraction, timeProbe, gridVars, grouping,
                 gogCall, calendarRun, multiList,
               routeCall, chatRun, fanOut, hookFetch>>

\* lines 55-69: a request is answered with success and the filtered lists
\* are stored
AnalyzeSucceeds(p, mail, cal) ==
  /\ p \in 1..Len(suggestHook.pending)
  /\ LET body == AnalyzeBody(suggestHook.pending[p].n, suggestHook.pending[p].source,
                              mail, cal)
         rest == [k \in 1..(Len(suggestHook.pending) - 1) |->
                    IF k < p THEN suggestHook.pending[k] ELSE suggestHook.pending[k + 1]]
         filtered == filterDismissed(body.suggestions, suggestHook.storage)
         gmail == filterDismissed(body.gmail, suggestHook.storage)
         calendar == filterDismissed(body.calendar, suggestHook.storage)
     IN suggestHook' =
          [suggestHook EXCEPT
             !.pending = rest,
             !.suggestions = filtered,
             !.gmailSuggestions = IF body.hasGmail THEN gmail ELSE @,
             !.calendarSuggestions = IF body.hasCalendar THEN calendar ELSE @,
             !.stored = [raw |-> body.suggestions,
                         lists |-> <<filtered>>
                                     \o (IF body.hasGmail THEN <<gmail>> ELSE << >>)
                                     \o (IF body.hasCalendar THEN <<calendar>> ELSE << >>)]]
  /\ UNCHANGED <<chatVars, analysis, extraction, timeProbe, gridVars, grouping,
                 gogCall, calendarRun, multiList,
               routeCall, chatRun, fanOut, hookFetch>>

\* lines 70-74: the request fails or the body says success: false; only the
\* error is set
AnalyzeFails(p) ==
  /\ p \in 1..Len(suggestHook.pending)
  /\ suggestHook' =
       [suggestHook EXCEPT
          !.pending = [k \in 1..(Len(suggestHook.pending) - 1) |->
                         IF k < p THEN suggestHook.pending[k]
                         ELSE suggestHook.pending[k + 1]],
          !.stored = NULL]
  /\ UNCHANGED <<chatVars, analysis, extraction, timeProbe, gridVars, grouping,
                 gogCall, calendarRun, multiList,
               routeCall, chatRun, fanOut, hookFetch>>

\* dismiss(suggestion), lines 93-103, for a suggestion shown in the list
dismiss(k) ==
  /\ k \in 1..Len(suggestHook.suggestions)
  /\ LET suggestion == suggestHook.suggestions[k]
     IN suggestHook' =
          [suggestHook EXCEPT
             !.storage = SavedWith(@, suggestion.sourceId),
             !.suggestions = WithoutId(@, suggestion.id),
             !.gmailSuggestions = WithoutId(@, suggestion.id),
             !.calendarSuggestions = WithoutId(@, suggestion.id),
             !.dismissed = @ \cup {suggestion.sourceId},
             !.stored = NULL]
  /\ UNCHANGED <<chatVars, analysis, extraction, timeProbe, gridVars, grouping,
                 gogCall, calendarRun, multiList,
               routeCall, chatRun, fanOut, hookFetch>>

\* clearDismissed, lines 111-113: localStorage.removeItem
clearDismissed ==
  /\ suggestHook.mounts > 0
  /\ suggestHook' = [suggestHook EXCEPT !.storage = [present |-> FALSE, ids |-> << >>],
                                        !.dismissed = {},
                                        !.stored = NULL]
  /\ UNCHANGED <<chatVars, analysis, extraction, timeProbe, gridVars, grouping,
                 gogCall, calendarRun, multiList,
               routeCall, chatRun, fanOut, hookFetch>>

\* the hook is created (again): its state starts empty (lines 38-40), the
\* requests of the instance before it no longer reach any state, and
\* localStorage is what it was
Mount ==
  /\ suggestHook.mounts < MaxMounts
  /\ suggestHook' = [suggestHook EXCEPT !.mounts = @ + 1,
                                        !.suggestions = << >>,
                                        !.gmailSuggestions = << >>,
                                        !.calendarSuggestions = << >>,
                                        !.pending = << >>, !.stored = NULL]
  /\ UNCHANGED <<chatVars, analysis, extraction, timeProbe, gridVars, grouping,
                 gogCall, calendarRun, multiList,
               routeCall, chatRun, fanOut, hookFetch>>

InitSuggest ==
  /\ SuggestIdle
  /\ ChatIdle /\ AnalysisIdle /\ ExtractionIdle /\ TimeIdle /\ GridIdle
  /\ GroupingIdle /\ GogIdle /\ CalendarRunIdle /\ MultiListIdle
  /\ RoutesIdle /\ ChatRunIdle /\ FanOutIdle /\ HooksIdle

NextSuggest ==
  \/ Mount
  \/ \E source \in {"gmail", "calendar", "both"} : AnalyzeStart(source)
  \/ \E p \in 1..2, mail \in GmailFindings, cal \in CalendarFindings :
       AnalyzeSucceeds(p, mail, cal)
  \/ \E p \in 1..2 : AnalyzeFails(p)
  \/ \E k \in 1..3 : dismiss(k)
  \/ clearDismissed

SpecSuggest == InitSuggest /\ [][NextSuggest]_vars

\* C17: every list an analyze call stores holds no suggestion whose source
\* id was dismissed since the last clearDismissed, however many analyses
\* follow the dismiss and in whichever instance of the hook.
C17_DismissedStayHidden ==
  suggestHook.stored # NULL =>
    \A l \in 1..Len(suggestHook.stored.lists) :
      \A k \in 1..Len(suggestHook.stored.lists[l]) :
        suggestHook.stored.lists[l][k].sourceId \notin suggestHook.dismissed

\* C17 witness: in a second instance of the hook, an analysis whose response
\* holds a suggestion for a dismissed mail has stored its lists
C17_Witness ==
  /\ suggestHook.mounts = 2
  /\ suggestHook.stored # NULL
  /\ "m1" \in suggestHook.dismissed
  /\ \E k \in 1..Len(suggestHook.stored.raw) :
       suggestHook.stored.raw[k].sourceId = "m1"
  /\ \E k \in 1..Len(suggestHook.suggestions) :
       suggestHook.suggestions[k].sourceId = "m2"


(***************************************************************************)
(* server/services/suggestions.ts : analyzeCalendar, the due date of a     *)
(* suggestion                                                              *)
(***************************************************************************)
MaxDueSuggestions == 2   \* suggestions pushed in one analyzeCalendar call

\* Date.prototype.setDate(getDate() - 1) on noon of a day: day 0 is the last
\* day of the month before, and of December for January
SetDateMinusOne(dt) ==
  IF dt[3] > 1 THEN <<dt[1], dt[2], dt[3] - 1>>
  ELSE IF dt[2] = 1 THEN <<dt[1] - 1, 12, 31>>
  ELSE <<dt[1], dt[2] - 1, DaysInMonth(dt[1], dt[2] - 1)>>

\* line 126, today: the client's local date or the server's, YYYY-MM-DD
Todays == {<<2024, 2, 28>>, <<2024, 12, 31>>, <<2025, 2, 28>>, <<2023, 6, 10>>}

\* the days, counted from today, on which a fetched event can start (an
\* event that began yesterday and goes on is in the window too)
EventOffsets == {-1, 0, 1, 2, 7}

\* the due test with >= in place of >
DefaultedDue_FromToday(sDue, eventDateStr, today) ==
  IF sDue = NoDate /\ eventDateStr # NoDate /\ ~DateStrLess(eventDateStr, today)
    THEN SetDateMinusOne(eventDateStr)
    ELSE sDue

\* lines 163-168: let due = s.due; if (!due && eventDateStr > today) the day
\* before the event. NoDate stands for a missing or empty string.
DefaultedDue(sDue, eventDateStr, today) ==
  IF sDue = NoDate /\ DateStrLess(today, eventDateStr)
    THEN SetDateMinusOne(eventDateStr)
    ELSE sDue

\* lines 161-181, one turn of the inner loop: the suggestion s of the AI
\* tool for an event is pushed with its due date
PushCalendarSuggestion(eventDateStr, sDue) ==
  /\ calendarRun.pc = "running"
  /\ Len(calendarRun.suggestions) < MaxDueSuggestions
  /\ calendarRun' =
       [calendarRun EXCEPT !.suggestions =
          Append(@, [sourceDate |-> eventDateStr, aiDue |-> sDue,
                     due |-> DefaultedDue(sDue, eventDateStr, calendarRun.today)])]
  /\ UNCHANGED <<chatVars, analysis, extraction, timeProbe, gridVars, grouping,
               gogCall, routeCall, chatRun, fanOut, hookFetch, suggestHook,
               multiList>>

\* line 184: return suggestions
AnalyzeCalendarReturns ==
  /\ calendarRun.pc = "running"
  /\ calendarRun' = [calendarRun EXCEPT !.pc = "returned"]
  /\ UNCHANGED <<chatVars, analysis, extraction, timeProbe, gridVars, grouping,
               gogCall, routeCall, chatRun, fanOut, hookFetch, suggestHook,
               multiList>>

\* lines 126-141: today is fixed and the events have been fetched; the start
\* of an event is a date, a dateTime or missing
InitCalendarRun ==
  /\ \E today \in Todays :
       calendarRun = [pc |-> "running", today |-> today,
                      eventDates |-> {NoDate} \cup {DateAt(today, k) : k \in EventOffsets},
                      suggestions |-> << >>]
  /\ ChatIdle /\ AnalysisIdle /\ ExtractionIdle /\ TimeIdle /\ GridIdle
  /\ GroupingIdle /\ GogIdle
  /\ RoutesIdle /\ ChatRunIdle /\ FanOutIdle /\ HooksIdle /\ SuggestIdle
  /\ MultiListIdle

\* s.due: missing, a day already past, or the day of the event
NextCalendarRun ==
  \/ \E ev \in calendarRun.eventDates :
       \E sDue \in {NoDate, SetDateMinusOne(calendarRun.today), ev} :
         PushCalendarSuggestion(ev, sDue)
  \/ AnalyzeCalendarReturns

SpecCalendarRun == InitCalendarRun /\ [][NextCalendarRun]_vars

\* C26: a suggestion for which the AI tool gave no due date has, when the
\* date of its event is strictly after today, the day before that date as
\* due date, which is never before today; otherwise it has no due date.
C26_DefaultDueDayBefore ==
  \A j \in 1..Len(calendarRun.suggestions) :
    LET s == calendarRun.suggestions[j]
        after == /\ s.sourceDate # NoDate
                 /\ DayNumber(s.sourceDate) > DayNumber(calendarRun.today)
    IN s.aiDue = NoDate =>
         IF after
           THEN /\ s.due # NoDate
                /\ DayNumber(s.due) = DayNumber(s.sourceDate) - 1
                /\ DayNumber(s.due) >= DayNumber(calendarRun.today)
           ELSE s.due = NoDate

\* C26 witness: on 2024-12-31 a suggestion without due date for an event of
\* 2025-01-01 was pushed with due 2024-12-31, and one for an event of today
\* without any
C26_Witness ==
  /\ calendarRun.today = <<2024, 12, 31>>
  /\ Len(calendarRun.suggestions) = 2
  /\ calendarRun.suggestions[1] =
       [sourceDate |-> <<2025, 1, 1>>, aiDue |-> NoDate, due |-> <<2024, 12, 31>>]
  /\ calendarRun.suggestions[2] =
       [sourceDate |-> <<2024, 12, 31>>, aiDue |-> NoDate, due |-> NoDate]


(***************************************************************************)
(* src/hooks/useSuggestions.ts : useMultiListTasks, the operations that    *)
(* call the API                                                            *)
(***************************************************************************)
MaxHookCalls == 3   \* calls of the hook's operations by the component

\* ids of task lists: 1 and 2 exist at the start, the server numbers the
\* lists it creates from 3 on
ListIds == 1..(2 + MaxHookCalls)

ApiOperations ==
  {"createList", "deleteList", "addTask", "toggleComplete", "updateTask", "removeTask"}

\* the four states of the hook
HookState ==
  [taskLists |-> multiList.taskLists, tasksByList |-> multiList.tasksByList,
   listVisibility |-> multiList.listVisibility,
   listCollapsed |-> multiList.listCollapsed, crashed |-> multiList.crashed]

Without(seq, listId) == SelectSeq(seq, LAMBDA l : l # listId)

\* what the server answers to a call that succeeds
ResponseTo(call) ==
  CASE call.op = "createList" -> [id |-> 2 + multiList.created + 1]
    [] call.op = "addTask" -> [id |-> "n", status |-> "needsAction", title |-> "t"]
    [] call.op = "toggleComplete" ->
         [id |-> call.taskId,
          status |-> IF call.completed THEN "needsAction" ELSE "completed",
          title |-> "t"]
    [] call.op = "updateTask" ->
         [id |-> call.taskId, status |-> "needsAction", title |-> "u"]
    [] OTHER -> NULL

\* the statements after the await of each operation, lines 249-252, 259-274,
\* 287-290, 301-304, 314-317 and 327-330. prev[listId].map and .filter on a
\* list that tasksByList does not hold throw inside the updater, which React
\* rethrows while rendering.
Applied(call) ==
  LET st == HookState
      l == call.listId
      held == st.tasksByList[l].present
      tasks == st.tasksByList[l].tasks
      response == ResponseTo(call)
  IN CASE call.op = "createList" ->
            [st EXCEPT !.taskLists = Append(@, response.id),
                       !.tasksByList[response.id] = [present |-> TRUE, tasks |-> << >>],
                       !.listVisibility[response.id] = "true",
                       !.listCollapsed[response.id] = "false"]
       [] call.op = "deleteList" ->
            [st EXCEPT !.taskLists = Without(@, l),
                       !.tasksByList[l] = [present |-> FALSE, tasks |-> << >>],
                       !.listVisibility[l] = "absent",
                       !.listCollapsed[l] = "absent"]
       [] call.op = "addTask" ->
            [st EXCEPT !.tasksByList[l] =
               [present |-> TRUE, tasks |-> <<response>> \o tasks]]
       [] call.op \in {"toggleComplete", "updateTask"} ->
            IF held
              THEN [st EXCEPT !.tasksByList[l].tasks =
                      [k \in 1..Len(tasks) |->
                         IF tasks[k].id = call.taskId THEN response ELSE tasks[k]]]
              ELSE [st EXCEPT !.crashed = TRUE]
       [] call.op = "removeTask" ->
            IF held
              THEN [st EXCEPT !.tasksByList[l].tasks =
                      SelectSeq(tasks, LAMBDA t : t.id # call.taskId)]
              ELSE [st EXCEPT !.crashed = TRUE]

\* the operations with their state changes in a finally block
HookStateAfter_ErrorIgnored(call, api) == Applied(call)

\* each operation awaits its API call first: a rejected call throws at the
\* await and none of the statements after it run
HookStateAfter(call, api) ==
  IF api = "fulfilled" THEN Applied(call) ELSE HookState

\* the operations are async functions without try / catch: their promise is
\* settled as the API call's is
CallerOutcome(api) == api

\* the component calls createList, deleteList, addTask, toggleComplete,
\* updateTask or removeTask: the operation runs up to its await. addTask
\* without a list to add to throws before any call.
HookCall(op, taskId, listId) ==
  /\ ~multiList.crashed
  /\ multiList.started < MaxHookCalls
  /\ LET target == IF op = "addTask" /\ listId = 0
                     THEN (IF Len(multiList.taskLists) > 0
                             THEN multiList.taskLists[1] ELSE 0)
                     ELSE listId
         held == target # 0 /\ multiList.tasksByList[target].present
         completed ==
           held /\ \E k \in 1..Len(multiList.tasksByList[target].tasks) :
                     /\ multiList.tasksByList[target].tasks[k].id = taskId
                     /\ multiList.tasksByList[target].tasks[k].status = "completed"
         call == [op |-> op, taskId |-> taskId, listId |-> target,
                  completed |-> completed]
     IN IF op = "addTask" /\ target = 0
          THEN multiList' = [multiList EXCEPT
                 !.started = @ + 1,
                 !.last = [op |-> op, api |-> "none", caller |-> "rejected"]]
          ELSE multiList' = [multiList EXCEPT
                 !.started = @ + 1,
                 !.pending = Append(@, call),
                 !.last = [op |-> op, api |-> "none", caller |-> "pending"]]
  /\ UNCHANGED <<chatVars, analysis, extraction, timeProbe, gridVars, grouping,
               gogCall, routeCall, chatRun, fanOut, hookFetch, suggestHook,
               calendarRun>>

CallSettled(k, api) ==
  LET call == multiList.pending[k]
      after == HookStateAfter(call, api)
  IN multiList' = [multiList EXCEPT
       !.taskLists = after.taskLists,
       !.tasksByList = after.tasksByList,
       !.listVisibility = after.listVisibility,
       !.listCollapsed = after.listCollapsed,
       !.crashed = after.crashed,
       !.created = IF api = "fulfilled" /\ call.op = "createList" THEN @ + 1 ELSE @,
       !.pending = SubSeq(@, 1, k - 1) \o SubSeq(@, k + 1, Len(@)),
       !.last = [op |-> call.op, api |-> api, caller |-> CallerOutcome(api)]]

\* the API call of an operation is fulfilled: the operation resumes after its
\* await, sets its states and returns
CallFulfilled(k) ==
  /\ ~multiList.crashed
  /\ k \in 1..Len(multiList.pending)
  /\ CallSettled(k, "fulfilled")
  /\ UNCHANGED <<chatVars, analysis, extraction, timeProbe, gridVars, grouping,
               gogCall, routeCall, chatRun, fanOut, hookFetch, suggestHook,
               calendarRun>>

\* the API call of an operation is rejected (request throws on a response
\* that is not ok, fetch on a network error)
CallRejected(k) ==
  /\ ~multiList.crashed
  /\ k \in 1..Len(multiList.pending)
  /\ CallSettled(k, "rejected")
  /\ UNCHANGED <<chatVars, analysis, extraction, timeProbe, gridVars, grouping,
               gogCall, routeCall, chatRun, fanOut, hookFetch, suggestHook,
               calendarRun>>

Toggled(v) == IF v = "true" THEN "false" ELSE "true"

\* lines 231-236: [listId]: !prev[listId]
toggleListVisibility(listId) ==
  /\ ~multiList.crashed
  /\ multiList.started < MaxHookCalls
  /\ multiList' = [multiList EXCEPT
       !.started = @ + 1,
       !.listVisibility[listId] = Toggled(@),
       !.last = [op |-> "toggleListVisibility", api |-> "none", caller |-> "none"]]
  /\ UNCHANGED <<chatVars, analysis, extraction, timeProbe, gridVars, grouping,
               gogCall, routeCall, chatRun, fanOut, hookFetch, suggestHook,
               calendarRun>>

\* lines 239-244
toggleListCollapsed(listId) ==
  /\ ~multiList.crashed
  /\ multiList.started < MaxHookCalls
  /\ multiList' = [multiList EXCEPT
       !.started = @ + 1,
       !.listCollapsed[listId] = Toggled(@),
       !.last = [op |-> "toggleListCollapsed", api |-> "none", caller |-> "none"]]
  /\ UNCHANGED <<chatVars, analysis, extraction, timeProbe, gridVars, grouping,
               gogCall, routeCall, chatRun, fanOut, hookFetch, suggestHook,
               calendarRun>>

\* the hook after its initial fetch: two lists, shown and open, the first
\* with one open task
InitMultiList ==
  /\ multiList =
       [taskLists |-> <<1, 2>>,
        tasksByList |->
          [l \in ListIds |->
             IF l = 1 THEN [present |-> TRUE,
                            tasks |-> <<[id |-> "a", status |-> "needsAction",
                                         title |-> "t"]>>]
             ELSE IF l = 2 THEN [present |-> TRUE, tasks |-> << >>]
             ELSE [present |-> FALSE, tasks |-> << >>]],
        listVisibility |-> [l \in ListIds |-> IF l <= 2 THEN "true" ELSE "absent"],
        listCollapsed |-> [l \in ListIds |-> IF l <= 2 THEN "false" ELSE "absent"],
        pending |-> << >>, started |-> 0, created |-> 0, crashed |-> FALSE,
        last |-> NULL]
  /\ ChatIdle /\ AnalysisIdle /\ ExtractionIdle /\ TimeIdle /\ GridIdle
  /\ GroupingIdle /\ GogIdle
  /\ RoutesIdle /\ ChatRunIdle /\ FanOutIdle /\ HooksIdle /\ SuggestIdle
  /\ CalendarRunIdle

ShownLists == {multiList.taskLists[k] : k \in 1..Len(multiList.taskLists)}

NextMultiList ==
  \/ HookCall("createList", "", 0)
  \/ \E l \in ShownLists : HookCall("deleteList", "", l)
  \/ \E l \in {0, 2} : HookCall("addTask", "", l)
  \/ \E op \in {"toggleComplete", "updateTask", "removeTask"}, l \in {1, 2} :
       HookCall(op, "a", l)
  \/ \E k \in 1..MaxHookCalls : CallFulfilled(k)
  \/ \E k \in 1..MaxHookCalls : CallRejected(k)
  \/ \E l \in ShownLists : toggleListVisibility(l)
  \/ \E l \in ShownLists : toggleListCollapsed(l)

SpecMultiList == InitMultiList /\ [][NextMultiList]_vars

FourStates ==
  <<multiList.taskLists, multiList.tasksByList, multiList.listVisibility,
    multiList.listCollapsed>>

\* C27: the six operations change taskLists, tasksByList, listVisibility and
\* listCollapsed only in the step in which their API call is fulfilled; the
\* step in which the call is rejected leaves the four unchanged and rejects
\* the promise the caller holds.
C27_StateOnlyAfterSuccess ==
  /\ [][(Len(multiList'.pending) < Len(multiList.pending)
           /\ multiList'.last.api = "rejected")
          => /\ FourStates' = FourStates
             /\ multiList'.last.caller = "rejected"]_vars
  /\ [][(FourStates' # FourStates /\ multiList'.last.op \in ApiOperations)
          => multiList'.last.api = "fulfilled"]_vars

\* C27 witness: after a createList that succeeded, a deleteList of list 1 was
\* rejected: the caller holds a rejected promise and the three lists, with
\* the task of list 1, are as before
C27_Witness ==
  /\ multiList.last # NULL
  /\ multiList.last.op = "deleteList"
  /\ multiList.last.api = "rejected"
  /\ multiList.last.caller = "rejected"
  /\ multiList.taskLists = <<1, 2, 3>>
  /\ Len(multiList.tasksByList[1].tasks) = 1
  /\ multiList.listVisibility[1] = "true"

====
